---- MODULE Spec2Model ----
(***************************************************************************)
(* Model of the AI Muzon result-aggregation pipeline:                      *)
(*   - the client search wrapper fetchSearch (cache, in-flight sharing),   *)
(*   - the direct upstream client fetchYouTubeDirect (filter, rank, dedup),*)
(*   - the proxy handler GET /api/search of server/index.js,               *)
(*   - the App orchestrator (initial load, loadMore).                      *)
(*                                                                         *)
(* Conventions.  A JS string that the code inspects (query text, title,    *)
(* description, tag, blocklist term) is a sequence of one-character        *)
(* strings.  An instant is an integer number of seconds since              *)
(* 2016-01-01T00:00:00Z (the code's millisecond quantities are converted   *)
(* where they are compared); the local time zone is taken to be UTC.  A    *)
(* date string handed to the client is a record [fmt, t]: fmt "iso" is the *)
(* output format of Date.toISOString, "short" another spelling of the same *)
(* instant that Date parses, "bad" an unparseable string, "none" an absent *)
(* (undefined or empty) one.                                               *)
(***************************************************************************)
EXTENDS Integers, Sequences, FiniteSets, TLC

VARIABLES
    clock,            \* Date.now(), in seconds
    ticks,            \* number of clock advances made so far
    reloads,          \* number of page reloads made so far
    hasClientKey,     \* Boolean(getYouTubeKey()): fixed by the build environment
    searchCache,      \* api.ts searchCache: cache key -> SearchResponse
    sessionStore,     \* sessionStorage "yt_cache:<key>": cache key -> [at, data]
    inFlightSearch,   \* api.ts inFlightSearch: cache key -> pending operation
    seenMap,          \* fetchYouTubeDirect._seenMap: lower-cased query -> set of ids
    ops,              \* the operations started by fetchSearch: id -> record
    calls,            \* the promises fetchSearch handed to its callers: id -> record
    fetchLog,         \* history: cache key -> [n: upstream fetches started for it,
                      \*   okAt: when the last of them succeeded, -1 when none did,
                      \*   okOp: the operation that succeeded last, 0 when none did]
    failedOps,        \* history: the operations that got a failed upstream or proxy
                      \*   response
    srvCache,         \* server/index.js cache: key -> [data, expiresAt]
    app,              \* the App component: refs and state of the orchestrator
    pager,            \* a caller of getNextWindowByMonths: the DateWindow it holds
                      \*   and, as history, the windows it has held, oldest last
    classifier,       \* a caller of computeCategoriesPool: the pool array it holds
                      \*   and, as history, the array it began with and the
                      \*   results of its calls
    favorites,        \* the favorites slice of the store: byId and, as history,
                      \*   the number of actions dispatched and the last two of
                      \*   them with the byId each one found; rows, the table
                      \*   prisma.favorite of the server by videoId; reqs, the
                      \*   requests the save buttons of the cards have sent
    cacheObj          \* identity of the object searchCache holds for a key

vars == <<clock, ticks, reloads, hasClientKey, searchCache, sessionStore,
          inFlightSearch, seenMap, ops, calls, fetchLog, failedOps, srvCache, app,
          pager, classifier, favorites, cacheObj>>

-----------------------------------------------------------------------------
(* Strings *)

Str_ai == <<"a","i">>
Str_AI == <<"A","I">>
Str_ai_padded == <<" ","a","i"," ">>
Str_blank == <<" "," ">>

UpperChars == <<"A","B","C","D","E","F","G","H","I","J","K","L","M",
                "N","O","P","Q","R","S","T","U","V","W","X","Y","Z">>
LowerChars == <<"a","b","c","d","e","f","g","h","i","j","k","l","m",
                "n","o","p","q","r","s","t","u","v","w","x","y","z">>

LowerMap == [c \in {UpperChars[i] : i \in 1..26} |->
               LowerChars[CHOOSE i \in 1..26 : UpperChars[i] = c]]

LowerChar(c) == IF c \in DOMAIN LowerMap THEN LowerMap[c] ELSE c

\* String.prototype.toLowerCase
ToLowerCase(s) == [i \in 1..Len(s) |-> LowerChar(s[i])]

\* String.prototype.includes
Includes(hay, needle) ==
    \E i \in 0..(Len(hay) - Len(needle)) :
        \A j \in 1..Len(needle) : hay[i + j] = needle[j]

IsSpace(c) == c = " "

RECURSIVE TrimLeft(_)
TrimLeft(s) ==
    IF s # <<>> /\ IsSpace(Head(s)) THEN TrimLeft(Tail(s)) ELSE s

RECURSIVE TrimRight(_)
TrimRight(s) ==
    IF s # <<>> /\ IsSpace(s[Len(s)]) THEN TrimRight(SubSeq(s, 1, Len(s) - 1)) ELSE s

\* String.prototype.trim
Trim(s) == TrimRight(TrimLeft(s))

\* s.replace(/\s+/g, ' ')
RECURSIVE CollapseSpaces(_)
CollapseSpaces(s) ==
    IF Len(s) < 2 THEN s
    ELSE IF IsSpace(s[1]) /\ IsSpace(s[2]) THEN CollapseSpaces(Tail(s))
    ELSE <<s[1]>> \o CollapseSpaces(Tail(s))

\* fetchSearch: (q || '').trim().replace(/\s+/g, ' ')
SanitizeQuery(q) == CollapseSpaces(Trim(q))

-----------------------------------------------------------------------------
(* Dates *)

IsLeap(y) == (y % 4 = 0 /\ y % 100 # 0) \/ y % 400 = 0

\* m is a JS month index, 0..11
DaysInMonth(y, m) ==
    IF m = 1 THEN (IF IsLeap(y) THEN 29 ELSE 28)
    ELSE IF m \in {3, 5, 8, 10} THEN 30 ELSE 31

DaysInYear(y) == IF IsLeap(y) THEN 366 ELSE 365

RECURSIVE DaysBeforeYear(_)
DaysBeforeYear(y) ==
    IF y <= 2016 THEN 0 ELSE DaysInYear(y - 1) + DaysBeforeYear(y - 1)

RECURSIVE DaysBeforeMonth(_, _)
DaysBeforeMonth(y, m) ==
    IF m = 0 THEN 0 ELSE DaysInMonth(y, m - 1) + DaysBeforeMonth(y, m - 1)

\* ECMAScript MakeDay: the month may lie outside 0..11 and the day of the
\* month may exceed the month's length; both carry over.
MakeDay(y, m, d) ==
    LET yy == y + (m \div 12)
        mm == m % 12
    IN  DaysBeforeYear(yy) + DaysBeforeMonth(yy, mm) + (d - 1)

RECURSIVE YearFrom(_, _)
YearFrom(dn, y) ==
    IF dn < DaysInYear(y) THEN <<y, dn>> ELSE YearFrom(dn - DaysInYear(y), y + 1)

RECURSIVE MonthFrom(_, _, _)
MonthFrom(dn, y, m) ==
    IF dn < DaysInMonth(y, m) THEN <<m, dn + 1>>
    ELSE MonthFrom(dn - DaysInMonth(y, m), y, m + 1)

\* getFullYear / getMonth / getDate and the time within the day
Civil(t) ==
    LET dn == t \div (24 * 3600)
        yr == YearFrom(dn, 2016)
        mo == MonthFrom(yr[2], yr[1], 0)
    IN  [y |-> yr[1], m |-> mo[1], d |-> mo[2], s |-> t % (24 * 3600)]

\* d.setMonth(d.getMonth() + k)
SetMonthRel(t, k) ==
    LET c == Civil(t)
    IN  MakeDay(c.y, c.m + k, c.d) * (24 * 3600) + c.s

\* The instant the page is opened: 2024-03-31T12:00:00Z
Now0 == MakeDay(2024, 2, 31) * (24 * 3600) + 12 * 3600

NoDate == [fmt |-> "none", t |-> 0]
BadDate == [fmt |-> "bad", t |-> 0]
IsoDate(t) == [fmt |-> "iso", t |-> t]
ShortDate(t) == [fmt |-> "short", t |-> t]

\* a variant that hands an unparseable input on as a date
toIsoUTC_KeepsInvalid(input) ==
    IF input.fmt = "none" THEN [fmt |-> "none", t |-> 0] ELSE [fmt |-> "iso", t |-> input.t]

\* api.ts toIsoUTC: undefined for an absent or unparseable input, else the ISO
\* spelling of the instant
toIsoUTC(input) ==
    IF input.fmt \in {"none", "bad"} THEN NoDate ELSE IsoDate(input.t)

\* a variant whose window does not move with the clock
getDefaultDateWindow_Fixed(now) ==
    [publishedAfter |-> IsoDate(SetMonthRel(Now0, -1)), publishedBefore |-> IsoDate(Now0)]

\* api.ts getDefaultDateWindow
getDefaultDateWindow(now) ==
    [publishedAfter |-> IsoDate(SetMonthRel(now, -1)), publishedBefore |-> IsoDate(now)]

\* a variant that takes the end of the current window as the end of the next
getNextWindowByMonths_FromEnd(current, monthsBack) ==
    LET before == current.publishedBefore.t
        after == SetMonthRel(before, 0 - monthsBack)
    IN  [publishedAfter |-> IsoDate(after), publishedBefore |-> IsoDate(before)]

\* api.ts getNextWindowByMonths, for a window whose publishedAfter Date parses
\* (toISOString throws a RangeError otherwise)
getNextWindowByMonths(current, monthsBack) ==
    LET before == current.publishedAfter.t
        after == SetMonthRel(before, 0 - monthsBack)
    IN  [publishedAfter |-> IsoDate(after), publishedBefore |-> IsoDate(before)]

\* toIsoUTC(x) || fallback
OrDefault(x, fallback) == IF x.fmt = "none" THEN fallback ELSE x

\* a variant that repairs an inverted window by exchanging its bounds
normalizeSearchOptions_Repair(opts, now) ==
    LET def == getDefaultDateWindow(now)
        afterIso == OrDefault(toIsoUTC(opts.publishedAfter), def.publishedAfter)
        beforeIso == OrDefault(toIsoUTC(opts.publishedBefore), def.publishedBefore)
    IN  IF afterIso.t = beforeIso.t
        THEN [ok |-> FALSE, opts |-> opts]
        ELSE [ok |-> TRUE,
              opts |-> [opts EXCEPT
                          !.publishedAfter = IF afterIso.t < beforeIso.t
                                             THEN afterIso ELSE beforeIso,
                          !.publishedBefore = IF afterIso.t < beforeIso.t
                                              THEN beforeIso ELSE afterIso]]

\* api.ts normalizeSearchOptions: [ok |-> FALSE] models the thrown Error
normalizeSearchOptions(opts, now) ==
    LET def == getDefaultDateWindow(now)
        afterIso == OrDefault(toIsoUTC(opts.publishedAfter), def.publishedAfter)
        beforeIso == OrDefault(toIsoUTC(opts.publishedBefore), def.publishedBefore)
    IN  IF ~(afterIso.t < beforeIso.t)
        THEN [ok |-> FALSE, opts |-> opts]
        ELSE [ok |-> TRUE,
              opts |-> [opts EXCEPT !.publishedAfter = afterIso,
                                    !.publishedBefore = beforeIso]]

\* a variant that builds the key from the lower-cased query text
makeSearchKey_LowerCase(q, pageToken, opts, mode) ==
    [q |-> [i \in 1..Len(q) |-> LowerChar(q[i])], pageToken |-> pageToken,
     opts |-> opts, mode |-> mode]

\* api.ts makeSearchKey / stableStringify: the key is the canonical
\* serialization of {q, pageToken, opts, mode}; two argument sets have the same
\* key exactly when these fields are equal
makeSearchKey(q, pageToken, opts, mode) ==
    [q |-> q, pageToken |-> pageToken, opts |-> opts, mode |-> mode]

-----------------------------------------------------------------------------
(* The upstream catalogue: what the three YouTube endpoints can report *)

\* The characters of the texts the catalogue uses: a title, description or tag is
\* kept as one value and spelled out where the code inspects its characters
Chars(s) ==
    CASE s = "AI Song" -> <<"A","I"," ","S","o","n","g">>
      [] s = "Lullaby" -> <<"L","u","l","l","a","b","y">>
      [] s = "WAR drums" -> <<"W","A","R"," ","d","r","u","m","s">>
      [] s = "Robot band" -> <<"R","o","b","o","t"," ","b","a","n","d">>
      [] s = "Night tune" -> <<"N","i","g","h","t"," ","t","u","n","e">>
      [] s = "Piano" -> <<"P","i","a","n","o">>
      [] s = "Explicit lyrics" -> <<"E","x","p","l","i","c","i","t"," ","l","y","r","i","c","s">>
      [] s = "music" -> <<"m","u","s","i","c">>
      [] s = "Gun" -> <<"G","u","n">>
      [] s = "Match highlights" -> <<"M","a","t","c","h"," ","h","i","g","h","l","i","g","h","t","s">>
      [] s = "Breaking news" -> <<"B","r","e","a","k","i","n","g"," ","n","e","w","s">>
      [] s = "Funny kids cartoon" -> <<"F","u","n","n","y"," ","k","i","d","s"," ","c","a","r","t","o","o","n">>
      [] s = "How to sing" -> <<"H","o","w"," ","t","o"," ","s","i","n","g">>
      [] s = "tutorial" -> <<"t","u","t","o","r","i","a","l">>
      [] OTHER -> <<>>

VideoIds == {"a", "b", "w", "g", "r", "d", "e"}

\* search.list item (YTSearchItem): id.videoId and the snippet fields the code reads
Snippet(id) ==
    [videoId |-> id,
     channelId |-> IF id \in {"a", "w", "r"} THEN "c1" ELSE "c2",
     title |-> CASE id = "a" -> "AI Song" [] id = "b" -> "Lullaby" [] id = "w" -> "WAR drums"
                 [] id = "g" -> "Robot band" [] id = "r" -> "Night tune" [] OTHER -> "Piano",
     description |-> IF id = "d" THEN "Explicit lyrics" ELSE "",
     publishedAt |-> CASE id = "a" -> Now0 - 10 * 24 * 3600
                       [] id = "b" -> Now0 - 3 * 24 * 3600
                       [] id = "w" -> Now0 - 5 * 24 * 3600
                       [] id = "g" -> Now0 - 7 * 24 * 3600
                       [] id = "r" -> Now0 - 3 * 24 * 3600
                       [] id = "e" -> MakeDay(2023, 7, 15) * (24 * 3600)
                       [] OTHER -> Now0 - 20 * 24 * 3600]

\* videos.list item (YTVideoDetails)
Details(id) ==
    [tags |-> CASE id = "a" -> <<"music">> [] id = "g" -> <<"music", "Gun">>
                [] OTHER -> <<>>,
     ytRating |-> IF id = "r" THEN "ytAgeRestricted" ELSE "",
     madeForKids |-> id = "b",
     categoryId |-> CASE id = "a" -> "27" [] id = "b" -> "10" [] OTHER -> "",
     viewCount |-> CASE id = "a" -> 500 [] id = "b" -> 20 [] OTHER -> 0]

\* what the optional chaining of the code reads from a missing details record
NoDetails ==
    [tags |-> <<>>, ytRating |-> "", madeForKids |-> FALSE, categoryId |-> "",
     viewCount |-> 0]

\* channels.list statistics.subscriberCount, after parseInt(..., 10) || 0
SubscriberCount(ch) == IF ch = "c1" THEN 200000 ELSE 50

\* detailsMap.get(vid), with the reads of an undefined record defaulted
DetailsOf(detailsMap, vid) ==
    IF vid \in DOMAIN detailsMap THEN detailsMap[vid] ELSE NoDetails

\* parseInt(channelMap.get(ch)?.statistics?.subscriberCount || '0', 10) || 0
SubsOf(channelMap, ch) ==
    IF ch \in DOMAIN channelMap THEN channelMap[ch] ELSE 0

-----------------------------------------------------------------------------
(* Safety filter *)

\* api.ts CONTENT_BLOCKLIST
CONTENT_BLOCKLIST == {
    <<"s","a","n","w","a","r","i","y","a">>,
    <<"p","a","j","a","m","a">>,
    <<"n","a","k","e","d">>,
    <<"s","e","x">>,
    <<"s","e","x","u","a","l">>,
    <<"n","s","f","w">>,
    <<"x","x","x">>,
    <<"p","o","r","n">>,
    <<"e","r","o","t","i","c">>,
    <<"1","8","+">>,
    <<"x","-","r","a","t","e","d">>,
    <<"n","u","d","e">>,
    <<"n","u","d","i","t","y">>,
    <<"f","e","t","i","s","h">>,
    <<"b","d","s","m">>,
    <<"v","i","o","l","e","n","t">>,
    <<"v","i","o","l","e","n","c","e">>,
    <<"m","u","r","d","e","r">>,
    <<"k","i","l","l">>,
    <<"k","i","l","l","i","n","g">>,
    <<"b","l","o","o","d">>,
    <<"g","o","r","e">>,
    <<"w","e","a","p","o","n">>,
    <<"g","u","n">>,
    <<"s","h","o","o","t">>,
    <<"s","h","o","o","t","i","n","g">>,
    <<"s","t","a","b">>,
    <<"s","t","a","b","b","i","n","g">>,
    <<"w","a","r">>,
    <<"f","i","g","h","t">>,
    <<"a","s","s","a","u","l","t">>,
    <<"s","u","i","c","i","d","e">>,
    <<"e","x","p","l","i","c","i","t">>,
    <<"s","w","e","a","r">>,
    <<"p","r","o","f","a","n","i","t","y">>,
    <<"f","u","c","k">>,
    <<"s","h","i","t">>,
    <<"b","i","t","c","h">>,
    <<"a","s","s","h","o","l","e">>,
    <<"c","u","n","t">>,
    <<"d","i","c","k">>,
    <<"b","a","s","t","a","r","d">>,
    <<"a","g","e"," ","r","e","s","t","r","i","c","t","e","d">>
    }

\* server/index.js BLOCKLIST
BLOCKLIST == {
    <<"s","a","n","w","a","r","i","y","a">>,
    <<"p","a","j","a","m","a">>,
    <<"n","a","k","e","d">>,
    <<"s","e","x">>,
    <<"s","e","x","u","a","l">>,
    <<"n","s","f","w">>,
    <<"x","x","x">>,
    <<"p","o","r","n">>,
    <<"e","r","o","t","i","c">>,
    <<"1","8","+">>,
    <<"x","-","r","a","t","e","d">>,
    <<"n","u","d","e">>,
    <<"n","u","d","i","t","y">>,
    <<"f","e","t","i","s","h">>,
    <<"b","d","s","m">>,
    <<"v","i","o","l","e","n","t">>,
    <<"v","i","o","l","e","n","c","e">>,
    <<"m","u","r","d","e","r">>,
    <<"k","i","l","l">>,
    <<"k","i","l","l","i","n","g">>,
    <<"b","l","o","o","d">>,
    <<"g","o","r","e">>,
    <<"w","e","a","p","o","n">>,
    <<"g","u","n">>,
    <<"s","h","o","o","t">>,
    <<"s","h","o","o","t","i","n","g">>,
    <<"s","t","a","b">>,
    <<"s","t","a","b","b","i","n","g">>,
    <<"w","a","r">>,
    <<"f","i","g","h","t">>,
    <<"a","s","s","a","u","l","t">>,
    <<"s","u","i","c","i","d","e">>,
    <<"e","x","p","l","i","c","i","t">>,
    <<"s","w","e","a","r">>,
    <<"p","r","o","f","a","n","i","t","y">>,
    <<"f","u","c","k">>,
    <<"s","h","i","t">>,
    <<"b","i","t","c","h">>,
    <<"a","s","s","h","o","l","e">>,
    <<"c","u","n","t">>,
    <<"d","i","c","k">>,
    <<"b","a","s","t","a","r","d">>,
    <<"a","g","e"," ","r","e","s","t","r","i","c","t","e","d">>
    }

\* api.ts getMaxAllowedAge default; server/index.js MAX_ALLOWED_AGE default
MAX_ALLOWED_AGE == 14

\* api.ts isTitleBlocked
isTitleBlocked(title) ==
    LET t == ToLowerCase(Chars(title))
    IN  \E w \in CONTENT_BLOCKLIST : Includes(t, w)

\* a variant that leaves the tags unchecked
isKidFriendly_NoTags(sn, det) ==
    LET title == ToLowerCase(Chars(sn.title))
        desc == ToLowerCase(Chars(sn.description))
    IN  IF MAX_ALLOWED_AGE < 18 /\ det.ytRating = "ytAgeRestricted" THEN FALSE
        ELSE ~(\E k \in CONTENT_BLOCKLIST : Includes(title, k) \/ Includes(desc, k))

\* api.ts isKidFriendly(sn, det)
isKidFriendly(sn, det) ==
    LET title == ToLowerCase(Chars(sn.title))
        desc == ToLowerCase(Chars(sn.description))
        tags == [i \in 1..Len(det.tags) |-> ToLowerCase(Chars(det.tags[i]))]
    IN  IF MAX_ALLOWED_AGE < 18 /\ det.ytRating = "ytAgeRestricted" THEN FALSE
        ELSE IF \E k \in CONTENT_BLOCKLIST : Includes(title, k) \/ Includes(desc, k)
        THEN FALSE
        ELSE IF Len(tags) > 0
                /\ \E k \in CONTENT_BLOCKLIST :
                       \E i \in 1..Len(tags) : Includes(tags[i], k)
        THEN FALSE
        ELSE TRUE

\* server/index.js isBlocked(sn, det)
isBlocked(sn, det) ==
    LET title == ToLowerCase(Chars(sn.title))
        desc == ToLowerCase(Chars(sn.description))
        tags == [i \in 1..Len(det.tags) |-> ToLowerCase(Chars(det.tags[i]))]
    IN  IF MAX_ALLOWED_AGE < 18 /\ det.ytRating = "ytAgeRestricted" THEN TRUE
        ELSE IF \E k \in BLOCKLIST : Includes(title, k) \/ Includes(desc, k) THEN TRUE
        ELSE IF Len(tags) # 0
                /\ \E k \in BLOCKLIST : \E i \in 1..Len(tags) : Includes(tags[i], k)
        THEN TRUE
        ELSE FALSE

-----------------------------------------------------------------------------
(* Ranking *)

\* a variant of the comparator whose date fallback puts the earlier published first
Prioritize_OldestFirst(a, b, detailsMap, channelMap, order) ==
    LET mka == IF DetailsOf(detailsMap, a.videoId).madeForKids THEN 1 ELSE 0
        mkb == IF DetailsOf(detailsMap, b.videoId).madeForKids THEN 1 ELSE 0
        verifiedA == IF SubsOf(channelMap, a.channelId) >= 100000 THEN 1 ELSE 0
        verifiedB == IF SubsOf(channelMap, b.channelId) >= 100000 THEN 1 ELSE 0
    IN  IF mkb # mka THEN mkb - mka
        ELSE IF verifiedB # verifiedA THEN verifiedB - verifiedA
        ELSE IF order = "date" THEN a.publishedAt - b.publishedAt
        ELSE 0

\* the comparator of prioritizedItems (api.ts) and prioritized (server/index.js):
\* negative when a sorts before b
Prioritize(a, b, detailsMap, channelMap, order) ==
    LET mka == IF DetailsOf(detailsMap, a.videoId).madeForKids THEN 1 ELSE 0
        mkb == IF DetailsOf(detailsMap, b.videoId).madeForKids THEN 1 ELSE 0
        verifiedA == IF SubsOf(channelMap, a.channelId) >= 100000 THEN 1 ELSE 0
        verifiedB == IF SubsOf(channelMap, b.channelId) >= 100000 THEN 1 ELSE 0
    IN  IF mkb # mka THEN mkb - mka
        ELSE IF verifiedB # verifiedA THEN verifiedB - verifiedA
        ELSE IF order = "date" THEN b.publishedAt - a.publishedAt
        ELSE 0

\* one insertion of a stable sort: x goes after every element that does not
\* sort after it
InsertSorted(sorted, x, detailsMap, channelMap, order) ==
    LET k == Cardinality({i \in 1..Len(sorted) :
                 Prioritize(sorted[i], x, detailsMap, channelMap, order) <= 0})
    IN  SubSeq(sorted, 1, k) \o <<x>> \o SubSeq(sorted, k + 1, Len(sorted))

\* items.slice().sort(comparator): Array.prototype.sort is stable
RECURSIVE SortItems(_, _, _, _)
SortItems(items, detailsMap, channelMap, order) ==
    IF items = <<>> THEN <<>>
    ELSE InsertSorted(SortItems(SubSeq(items, 1, Len(items) - 1),
                                detailsMap, channelMap, order),
                      items[Len(items)], detailsMap, channelMap, order)

\* the VideoItem built from a search item and its details (thumbnailUrl,
\* channelTitle and duration are copied through and not modelled)
ToVideoItem(sn, det) ==
    [videoId |-> sn.videoId,
     title |-> sn.title,
     publishedAt |-> sn.publishedAt,
     viewCount |-> det.viewCount,
     description |-> sn.description,
     tags |-> det.tags,
     videoCategoryId |-> det.categoryId,
     madeForKids |-> det.madeForKids]

\* fetchYouTubeDirect: results.filter(seen) with seen.add as it goes
RECURSIVE UniqueUnseen(_, _)
UniqueUnseen(results, seen) ==
    IF results = <<>> THEN <<>>
    ELSE IF Head(results).videoId \in seen THEN UniqueUnseen(Tail(results), seen)
    ELSE <<Head(results)>>
         \o UniqueUnseen(Tail(results), seen \cup {Head(results).videoId})

IdsOf(items) == {items[i].videoId : i \in 1..Len(items)}

\* fetchYouTubeDirect after the three responses: filter, rank, map, title
\* filter, per-query dedup.  items are the search items, seen the scope's set.
DirectItems(items, detailsMap, channelMap, order, seen) ==
    LET KidOk(i) == isKidFriendly(i, DetailsOf(detailsMap, i.videoId))
        filteredItems == SelectSeq(items, KidOk)
        prioritizedItems == SortItems(filteredItems, detailsMap, channelMap, order)
        mapped == [n \in 1..Len(prioritizedItems) |->
                     ToVideoItem(prioritizedItems[n],
                                 DetailsOf(detailsMap, prioritizedItems[n].videoId))]
        TitleOk(v) == v.videoId # "" /\ ~isTitleBlocked(v.title)
        results == SelectSeq(mapped, TitleOk)
    IN  UniqueUnseen(results, seen)

\* GET /api/search after the three responses: filter, rank, map
ServerItems(items, detailsMap, channelMap, order) ==
    LET NotBlocked(i) == ~isBlocked(i, DetailsOf(detailsMap, i.videoId))
        filtered == SelectSeq(items, NotBlocked)
        prioritized == SortItems(filtered, detailsMap, channelMap, order)
    IN  [n \in 1..Len(prioritized) |->
           ToVideoItem(prioritized[n], DetailsOf(detailsMap, prioritized[n].videoId))]

\* a variant that caches the result as it arrived
DefensiveFilter_None(items) == items

\* fetchSearch: the defensive title filter applied before caching
DefensiveFilter(items) ==
    LET Ok(v) == v.videoId # "" /\ ~isTitleBlocked(v.title)
    IN  SelectSeq(items, Ok)

-----------------------------------------------------------------------------
(* Bounds of the model and constants of the program *)

MaxCalls == 2       \* fetchSearch calls made by the page's own callers
MaxTicks == 2       \* clock advances
MaxReloads == 1     \* full page reloads

\* fetchSearch: const MAX_AGE_MS = 15 * 60 * 1000
MAX_AGE_MS == 15 * 60 * 1000

\* server/index.js: CACHE_TTL_SECONDS default
CACHE_TTL_SECONDS == 3600

\* the clock advances by a second, to the last second within the client TTL,
\* or by the server TTL
TickSteps == {1, (MAX_AGE_MS \div 1000) - 1, CACHE_TTL_SECONDS}

-----------------------------------------------------------------------------
(* Maps (JS Map / Storage) as functions with a growing domain *)

EmptyMap == [x \in {} |-> 0]
Put(f, k, v) == (k :> v) @@ f
Remove(f, k) == [x \in (DOMAIN f) \ {k} |-> f[x]]
Range(seq) == {seq[n] : n \in 1..Len(seq)}
Max(a, b) == IF a >= b THEN a ELSE b
Min(a, b) == IF a <= b THEN a ELSE b

\* The JS number NaN, kept as an integer no caller passes otherwise
NaN == 0 - 1000000

\* Math.max / Math.min: NaN when an argument is NaN
MathMax(a, b) == IF a = NaN \/ b = NaN THEN NaN ELSE Max(a, b)
MathMin(a, b) == IF a = NaN \/ b = NaN THEN NaN ELSE Min(a, b)
FreshId(f) == CHOOSE n \in 1..(Cardinality(DOMAIN f) + 1) : n \notin DOMAIN f

-----------------------------------------------------------------------------
(* Records *)

\* SearchOptions: order "", maxResults <<>> and kidFriendlyOnly FALSE stand for an
\* absent property
Opts(order, maxResults, after, before) ==
    [order |-> order, maxResults |-> maxResults,
     publishedAfter |-> after, publishedBefore |-> before, kidFriendlyOnly |-> FALSE]

NoOpts == Opts("", <<>>, NoDate, NoDate)
NoKey == makeSearchKey(<<>>, "", NoOpts, "none")

\* SearchResponse {q, items, nextPageToken, cached}
Response(q, items, next, cached) ==
    [q |-> q, items |-> items, nextPageToken |-> next, cached |-> cached]

NoResponse == Response(<<>>, <<>>, "", FALSE)

\* an HTTP response of the proxy as the client sees it
HttpOk(data) == [ok |-> TRUE, status |-> 200, data |-> data]
HttpError(status) == [ok |-> FALSE, status |-> status, data |-> NoResponse]

LogOf(key) ==
    IF key \in DOMAIN fetchLog THEN fetchLog[key] ELSE [n |-> 0, okAt |-> 0 - 1, okOp |-> 0]

\* Object identities.  A response object is named by the statement that
\* created it and the call or operation that ran the statement.
NoObject == <<"none", 0>>
Obj(site, n) == <<site, n>>

\* a variant that hands back the object it was given
deepClone_SameObject(val, fresh) == val

\* api.ts deepClone: structuredClone(val), or JSON.parse(JSON.stringify(val));
\* either way an object that shares nothing with val.  fresh names the new
\* object.
deepClone(val, fresh) == fresh

\* the promise handed to one caller of fetchSearch
\*   args: history, the arguments of the call
\*   promise: the operation it waits for (0: settled at once)
\*   started: this call started the operation
\*   age: history, seconds since the last upstream fetch for the key succeeded,
\*        when the call was made (-1: none had)
\*   page: history, the number of page reloads before the call
\*   origin: history, the operation whose response the call returns: the one it
\*        waits for, or the one that fetched the cached response (0: none)
\*   obj: identity of the response object the promise resolved with
\*   changed: history, 0 or, once the caller has changed the response object,
\*        the number of calls made until then
Call(caller, args, key, promise, isStarter, status, data, error, age) ==
    [caller |-> caller, args |-> args, key |-> key, promise |-> promise,
     started |-> isStarter, status |-> status, data |-> data, error |-> error,
     age |-> age, page |-> reloads,
     origin |-> IF promise # 0 THEN promise
                ELSE IF status = "resolved" THEN LogOf(key).okOp ELSE 0,
     obj |-> NoObject, changed |-> 0]

\* an operation started by fetchSearch (the async IIFE and the upstream or
\* proxy request it awaits)
\*   pc: "search" | "details" | "channels"            (fetchYouTubeDirect)
\*       "p_sent" | "s_search" | "s_details" | "s_channels" | "p_resp"
\*                                                     (fetchViaProxy, server)
\*       "resolved" | "rejected" | "gone"
\*   client: "live", or "gone" once the page that started it was reloaded
\*   found: history, the ids the search.list call delivered
\*   enriched: history, the ids whose details record the videos.list call delivered
\*   sent: history, the upstream calls made for the operation, in order
NewOp(key, mode, maxResults) ==
    [key |-> key, mode |-> mode, pc |-> IF mode = "yt" THEN "search" ELSE "p_sent",
     client |-> "live", maxResults |-> maxResults,
     items |-> <<>>, next |-> "", detailsMap |-> EmptyMap, channelMap |-> EmptyMap,
     srvKey |-> NoKey, srvOrder |-> "", srvMaxResults |-> 0, srvHit |-> FALSE,
     srvAge |-> 0 - 1, resp |-> HttpOk(NoResponse), found |-> {},
     enriched |-> {}, sent |-> IF mode = "yt" THEN <<"search">> ELSE <<>>]

\* the record of an operation that has ended
Ended(op, pc) ==
    [op EXCEPT !.pc = pc, !.items = <<>>, !.next = "", !.detailsMap = EmptyMap,
               !.channelMap = EmptyMap, !.resp = HttpOk(NoResponse)]

Pending(o) == ops[o].pc \notin {"resolved", "rejected", "gone"}

\* the App component's state
\*   pc: "start" | "init" (the initial-load IIFE awaits fetchSearch) | "ready"
\*   i, pool, await: the IIFE's keyword index (1-based), its local pool and the
\*        call it awaits
\*   monthsBackCounter: by keyword index, 0 for an unset property
\*   oldestPublishedDate: -1 for ''
\*   lmKw, lmCounter, lmAttempts, lmAwait: the locals of a running
\*        fetchNextMonthWindowGlobal and the call it awaits
\*   lmFrom, lmCalls: history, the selected keyword's months-back counter when
\*        the running fetchNextMonthWindowGlobal began and the fetchSearch
\*        calls it has made
\*   picks: history, the keywords (1-based) the fetchNextMonthWindowGlobal
\*        runs selected, in order
\*   loadMores, batches, toasts: history, the loadMoreForAny calls made, the
\*        id lists of the batches they added, the notifyError calls
\*   lastError: history, the message of the latest notifyError call
\*   categoryVideos: the rows by name; no row at all before the first
\*        setCategoryVideos
\*   asked: history, by keyword index the fetchSearch calls the
\*        fetchNextMonthWindowGlobal runs made for the keyword, in order
AppInit ==
    [pc |-> "start", didInit |-> FALSE, cancelled |-> FALSE,
     loading |-> FALSE, loadProgress |-> 0, error |-> "",
     i |-> 0, pool |-> <<>>, await |-> 0,
     allVideos |-> <<>>, globalDisplayedIds |-> {},
     oldestPublishedDate |-> 0 - 1,
     monthsBackCounter |-> [k \in 1..4 |-> 0], keywordIndex |-> 0,
     loadingMoreRef |-> FALSE, loadingMore |-> FALSE,
     lmKw |-> 0, lmCounter |-> 0, lmAttempts |-> 0, lmAwait |-> 0,
     lmFrom |-> 0, lmCalls |-> 0, picks |-> <<>>,
     loadMores |-> 0, batches |-> <<>>, toasts |-> 0, lastError |-> "",
     categoryVideos |-> EmptyMap, asked |-> [k \in 1..4 |-> <<>>]]

-----------------------------------------------------------------------------
(* fetchSearch: the synchronous part *)

\* searchCache.get(cacheKey)
MemoryHit(key) == key \in DOMAIN searchCache

\* a variant that compares the age in seconds with the limit in milliseconds
\* scaled twice
SessionFresh_UnitMixup(entry, now) == (now - entry.at) * 1000 * 1000 < MAX_AGE_MS

\* (Date.now() - parsed.at) < MAX_AGE_MS
SessionFresh(entry, now) == (now - entry.at) * 1000 < MAX_AGE_MS

\* a variant that never finds a registered operation
InFlightFor_Never(key) == 0

\* inFlightSearch.get(cacheKey); 0 when nothing is registered
InFlightFor(key) == IF key \in DOMAIN inFlightSearch THEN inFlightSearch[key] ELSE 0

\* fetchYouTubeDirect / fetchViaProxy: Math.max(1, Math.min(30, requested)),
\* requested being opts.maxResults when typeof gives 'number', else 30
ClientMaxResults(opts) ==
    LET requested == IF opts.maxResults = <<>> THEN 30 ELSE opts.maxResults[1]
    IN  MathMax(1, MathMin(30, requested))

\* seconds since the last upstream fetch for the key succeeded; -1 when none did
StoredAge(key) ==
    IF LogOf(key).okAt < 0 THEN 0 - 1 ELSE clock - LogOf(key).okAt

\* fetchSearch(q, pageToken, opts) up to the first await; id names the promise
\* it returns
FetchSearch(id, caller, q, pageToken, opts) ==
    LET qSan == SanitizeQuery(q)
        norm == normalizeSearchOptions(opts, clock)
        mode == IF hasClientKey THEN "yt" ELSE "proxy"
        cacheKey == makeSearchKey(qSan, pageToken, norm.opts, mode)
        age == StoredAge(cacheKey)
        args == [q |-> q, pageToken |-> pageToken, opts |-> opts]
    IN
    IF qSan = <<>> THEN
        /\ calls' = Put(calls, id, Call(caller, args, NoKey, 0, FALSE, "rejected",
                                        NoResponse, "Query is empty", 0 - 1))
        /\ UNCHANGED <<searchCache, cacheObj, sessionStore, inFlightSearch, seenMap, ops,
                       fetchLog>>
    ELSE IF ~norm.ok THEN
        /\ calls' = Put(calls, id, Call(caller, args, NoKey, 0, FALSE, "rejected", NoResponse,
                            "publishedAfter must be before publishedBefore", 0 - 1))
        /\ UNCHANGED <<searchCache, cacheObj, sessionStore, inFlightSearch, seenMap, ops,
                       fetchLog>>
    ELSE IF MemoryHit(cacheKey) THEN
        LET res == deepClone(cacheObj[cacheKey], Obj("res", id))
        IN  /\ calls' = Put(calls, id,
                            [Call(caller, args, cacheKey, 0, FALSE, "resolved",
                                  [searchCache[cacheKey] EXCEPT !.cached = TRUE], "", age)
                               EXCEPT !.obj = res])
            /\ UNCHANGED <<searchCache, cacheObj, sessionStore, inFlightSearch, seenMap,
                           ops, fetchLog>>
    ELSE IF cacheKey \in DOMAIN sessionStore /\ SessionFresh(sessionStore[cacheKey], clock) THEN
        LET res == [sessionStore[cacheKey].data EXCEPT !.cached = TRUE]
            resObj == deepClone(Obj("parsed", id), Obj("res", id))
        IN  /\ calls' = Put(calls, id,
                            [Call(caller, args, cacheKey, 0, FALSE, "resolved",
                                  res, "", age) EXCEPT !.obj = resObj])
            /\ searchCache' = Put(searchCache, cacheKey, res)
            /\ cacheObj' = Put(cacheObj, cacheKey, deepClone(resObj, Obj("warm", id)))
            /\ UNCHANGED <<sessionStore, inFlightSearch, seenMap, ops, fetchLog>>
    ELSE
        /\ sessionStore' = Remove(sessionStore, cacheKey)
        /\ IF InFlightFor(cacheKey) # 0 THEN
               /\ calls' = Put(calls, id, Call(caller, args, cacheKey, InFlightFor(cacheKey),
                                   FALSE, "pending", NoResponse, "", age))
               /\ UNCHANGED <<searchCache, cacheObj, inFlightSearch, seenMap, ops,
                              fetchLog>>
           ELSE
               LET o == FreshId(ops)
               IN  /\ ops' = Put(ops, o, NewOp(cacheKey, mode, ClientMaxResults(norm.opts)))
                   /\ inFlightSearch' = Put(inFlightSearch, cacheKey, o)
                   /\ fetchLog' = Put(fetchLog, cacheKey,
                                      [LogOf(cacheKey) EXCEPT !.n = @ + 1])
                   /\ calls' = Put(calls, id, Call(caller, args, cacheKey, o, TRUE, "pending",
                                                   NoResponse, "", age))
                   /\ UNCHANGED <<searchCache, cacheObj, seenMap>>

\* a call made by the page itself (a caller other than the App orchestrator)
UserSearch(q, pageToken, opts) ==
    /\ FetchSearch(FreshId(calls), "user", q, pageToken, opts)
    /\ UNCHANGED <<clock, ticks, reloads, hasClientKey, pager, classifier, favorites,
                   failedOps, srvCache, app>>

-----------------------------------------------------------------------------
(* fetchSearch: how the async IIFE ends *)

\* every caller attached to operation o sees its promise settle
SettleCalls(o, status, data, error) ==
    [c \in DOMAIN calls |->
        IF calls[c].promise = o /\ calls[c].status = "pending"
        THEN [calls[c] EXCEPT !.status = status, !.data = data, !.error = error]
        ELSE calls[c]]

\* a variant that leaves the registration in place
ReleaseInFlight_Leak(key) == inFlightSearch

\* finally { inFlightSearch.delete(cacheKey) }
ReleaseInFlight(key) == Remove(inFlightSearch, key)

\* the try block after the upstream result arrived: defensive filter, both
\* cache tiers written, a copy returned
Complete(o, result) ==
    LET key == ops[o].key
        toCache == [result EXCEPT !.items = DefensiveFilter(result.items)]
        toCacheObj == deepClone(Obj("result", o), Obj("toCache", o))
        returned == deepClone(toCacheObj, Obj("returned", o))
        settled == SettleCalls(o, "resolved", toCache, "")
    IN  /\ searchCache' = Put(searchCache, key, toCache)
        /\ cacheObj' = Put(cacheObj, key, deepClone(toCacheObj, Obj("cached", o)))
        /\ sessionStore' = Put(sessionStore, key, [at |-> clock, data |-> toCache])
        /\ calls' = [c \in DOMAIN calls |->
                        IF calls[c].promise = o /\ calls[c].status = "pending"
                        THEN [settled[c] EXCEPT !.obj = returned]
                        ELSE calls[c]]
        /\ inFlightSearch' = ReleaseInFlight(key)
        /\ ops' = [ops EXCEPT ![o] = Ended(@, "resolved")]
        /\ fetchLog' = Put(fetchLog, key,
                           [LogOf(key) EXCEPT !.okAt = clock, !.okOp = o])

\* a variant whose catch block answers with an empty page
Fail_AsEmptyPage(o, error) == Complete(o, Response(ops[o].key.q, <<>>, "", FALSE))

\* the catch block: the error is logged and thrown again
Fail(o, error) ==
    /\ calls' = SettleCalls(o, "rejected", NoResponse, error)
    /\ inFlightSearch' = ReleaseInFlight(ops[o].key)
    /\ ops' = [ops EXCEPT ![o] = Ended(@, "rejected")]
    /\ UNCHANGED <<searchCache, cacheObj, sessionStore, fetchLog>>

-----------------------------------------------------------------------------
(* fetchYouTubeDirect: the three upstream responses *)

\* what the upstream endpoints answer
\*   kind: "ok" | "http" (a non-2xx response) | "net" (fetch itself rejects)
SearchOk(ids, next) ==
    [kind |-> "ok", status |-> 200, reason |-> "", message |-> <<>>,
     items |-> ids, next |-> next]
\* a non-2xx answer: reason is body.error.errors[0].reason, message is
\* body.error.message || JSON.stringify(body), or the body text
SearchHttpMsg(status, reason, message) ==
    [kind |-> "http", status |-> status, reason |-> reason, message |-> message,
     items |-> <<>>, next |-> ""]
SearchHttp(status, reason) == SearchHttpMsg(status, reason, <<>>)
SearchNet ==
    [kind |-> "net", status |-> 0, reason |-> "", message |-> <<>>,
     items |-> <<>>, next |-> ""]
\* videos.list returns the details of the ids in have
DetailsOk(have) == [kind |-> "ok", have |-> have]
DetailsHttp == [kind |-> "http", have |-> {}]
DetailsNet == [kind |-> "net", have |-> {}]

ErrQuota == "YouTube API quota reached or access forbidden. Please try again later."
ErrBadRequest == "Invalid YouTube API request. Please adjust filters or try again."
ErrSearchFailed == "YouTube search failed"
ErrNetwork == "Failed to fetch"

\* a variant that takes every 4xx status for a bad request
SearchErrorOf_Any4xx(out) ==
    IF out.kind = "net" THEN ErrNetwork
    ELSE IF out.status = 403 \/ out.reason = "quotaExceeded"
            \/ Includes(ToLowerCase(out.message), <<"q","u","o","t","a">>)
    THEN ErrQuota
    ELSE IF out.status \in 400..499 \/ out.reason = "badRequest"
    THEN ErrBadRequest
    ELSE ErrSearchFailed

\* the Error fetchYouTubeDirect throws for a failed search response; the text
\* of the last one goes on with the status and the message
SearchErrorOf(out) ==
    IF out.kind = "net" THEN ErrNetwork
    ELSE IF out.status = 403 \/ out.reason = "quotaExceeded"
            \/ Includes(ToLowerCase(out.message), <<"q","u","o","t","a">>)
    THEN ErrQuota
    ELSE IF out.status = 400 \/ out.reason = "badRequest"
    THEN ErrBadRequest
    ELSE ErrSearchFailed

SnippetsOf(ids) == [n \in 1..Len(ids) |-> Snippet(ids[n])]
ChannelIdsOf(items) == {items[n].channelId : n \in 1..Len(items)}
DetailsMapOf(items, have) == [v \in (IdsOf(items) \cap have) |-> Details(v)]
ChannelMapOf(items) == [c \in ChannelIdsOf(items) |-> SubscriberCount(c)]

\* const ids = items.map(i => i?.id?.videoId).filter(Boolean)
FoundIds(ids) == Range(ids) \ {""}

\* a variant that asks for the details of an empty list of ids as well
NextCall_AlwaysDetails(ids) == "details"

\* the call that follows a search answer with items: videos.list when
\* ids.length > 0, otherwise channels.list (every search item carries a
\* channelId, so channelIds.length > 0)
NextCall(ids) == IF FoundIds(ids) # {} THEN "details" ELSE "channels"

SrvPc(call) == IF call = "details" THEN "s_details" ELSE "s_channels"

\* const order = opts?.order ?? 'date'
OrderOf(opts) == IF opts.order = "" THEN "date" ELSE opts.order

\* a variant that keys the seen-sets by the query as typed
SeenKey_CaseSensitive(q) == q

\* const seenKey = q.toLowerCase()
SeenKey(q) == ToLowerCase(q)

SeenOf(seenKey) == IF seenKey \in DOMAIN seenMap THEN seenMap[seenKey] ELSE {}

\* a variant that starts the scope's set anew with every fetch
FinishDirect_ResetsScope(o, items, next, detailsMap, channelMap) ==
    LET key == ops[o].key
        seenKey == SeenKey(key.q)
        unique == DirectItems(items, detailsMap, channelMap, OrderOf(key.opts), {})
    IN  /\ seenMap' = Put(seenMap, seenKey, IdsOf(unique))
        /\ Complete(o, Response(key.q, unique, next, FALSE))

\* the tail of fetchYouTubeDirect and of the IIFE, once all responses are in
FinishDirect(o, items, next, detailsMap, channelMap) ==
    LET key == ops[o].key
        seenKey == SeenKey(key.q)
        seen == SeenOf(seenKey)
        unique == DirectItems(items, detailsMap, channelMap, OrderOf(key.opts), seen)
    IN  /\ seenMap' = Put(seenMap, seenKey, seen \cup IdsOf(unique))
        /\ Complete(o, Response(key.q, unique, next, FALSE))

SearchResp(o, out) ==
    /\ o \in DOMAIN ops
    /\ ops[o].pc = "search"
    /\ IF out.kind # "ok" THEN
           /\ Fail(o, SearchErrorOf(out))
           /\ UNCHANGED seenMap
       ELSE IF out.items # <<>> THEN
           /\ ops' = [ops EXCEPT ![o].pc = NextCall(out.items),
                                 ![o].items = SnippetsOf(out.items),
                                 ![o].next = out.next, ![o].found = FoundIds(out.items),
                                 ![o].sent = Append(@, NextCall(out.items))]
           /\ UNCHANGED <<searchCache, cacheObj, sessionStore, inFlightSearch, seenMap,
                          calls, fetchLog>>
       ELSE FinishDirect(o, <<>>, out.next, EmptyMap, EmptyMap)
    /\ failedOps' = IF out.kind # "ok" THEN failedOps \cup {o} ELSE failedOps
    /\ UNCHANGED <<clock, ticks, reloads, hasClientKey, pager, classifier, favorites,
                   srvCache, app>>

\* a variant that repeats the videos.list call when it was answered with a
\* non-2xx status
DetailsResp_Retry(o, out) ==
    /\ o \in DOMAIN ops
    /\ ops[o].pc = "details"
    /\ IF out.kind = "net" THEN
           /\ Fail(o, "Failed to fetch")
           /\ UNCHANGED seenMap
       ELSE
           /\ ops' = IF out.kind = "http"
                     THEN [ops EXCEPT ![o].sent = Append(@, "details")]
                     ELSE [ops EXCEPT ![o].pc = "channels",
                                      ![o].detailsMap =
                                          DetailsMapOf(ops[o].items, out.have),
                                      ![o].enriched =
                                          DOMAIN DetailsMapOf(ops[o].items, out.have),
                                      ![o].sent = Append(@, "channels")]
           /\ UNCHANGED <<searchCache, cacheObj, sessionStore, inFlightSearch, seenMap,
                          calls, fetchLog>>
    /\ failedOps' = IF out.kind = "net" THEN failedOps \cup {o} ELSE failedOps
    /\ UNCHANGED <<clock, ticks, reloads, hasClientKey, pager, classifier, favorites,
                   srvCache, app>>

DetailsResp(o, out) ==
    /\ o \in DOMAIN ops
    /\ ops[o].pc = "details"
    /\ IF out.kind = "net" THEN
           /\ Fail(o, "Failed to fetch")
           /\ UNCHANGED seenMap
       ELSE
           /\ LET detailsMap == IF out.kind = "ok"
                                 THEN DetailsMapOf(ops[o].items, out.have)
                                 ELSE EmptyMap
              IN  ops' = [ops EXCEPT ![o].pc = "channels",
                                     ![o].detailsMap = detailsMap,
                                     ![o].enriched = DOMAIN detailsMap,
                                     ![o].sent = Append(@, "channels")]
           /\ UNCHANGED <<searchCache, cacheObj, sessionStore, inFlightSearch, seenMap,
                          calls, fetchLog>>
    /\ failedOps' = IF out.kind = "net" THEN failedOps \cup {o} ELSE failedOps
    /\ UNCHANGED <<clock, ticks, reloads, hasClientKey, pager, classifier, favorites,
                   srvCache, app>>

ChannelsResp(o, kind) ==
    /\ o \in DOMAIN ops
    /\ ops[o].pc = "channels"
    /\ IF kind = "net" THEN
           /\ Fail(o, "Failed to fetch")
           /\ UNCHANGED seenMap
       ELSE FinishDirect(o, ops[o].items, ops[o].next, ops[o].detailsMap,
                         IF kind = "ok" THEN ChannelMapOf(ops[o].items) ELSE EmptyMap)
    /\ failedOps' = IF kind = "net" THEN failedOps \cup {o} ELSE failedOps
    /\ UNCHANGED <<clock, ticks, reloads, hasClientKey, pager, classifier, favorites,
                   srvCache, app>>

-----------------------------------------------------------------------------
(* The proxy: fetchViaProxy on the client, GET /api/search on the server *)

\* server/index.js parseIso: null for an empty or unparseable string
parseIso(s) == IF s.fmt \in {"none", "bad"} THEN NoDate ELSE IsoDate(s.t)

\* a variant that repairs an inverted window but leaves a future publishedBefore
SrvNormalizeWindow_NoClamp(after, before, now) ==
    LET dAfter == parseIso(after)
        dBefore == parseIso(before)
        dAfter1 == IF dAfter.fmt # "none" /\ dBefore.fmt # "none" /\ dAfter.t >= dBefore.t
                   THEN IsoDate(dBefore.t - 1)
                   ELSE dAfter
    IN  [publishedAfter |-> dAfter1, publishedBefore |-> dBefore]

\* server/index.js: publishedBefore clamped to now, then an inverted window
\* repaired by moving publishedAfter to one second (1000 ms) before publishedBefore
SrvNormalizeWindow(after, before, now) ==
    LET dAfter == parseIso(after)
        dBefore0 == parseIso(before)
        dBefore == IF dBefore0.fmt # "none" /\ dBefore0.t > now THEN IsoDate(now)
                   ELSE dBefore0
        dAfter1 == IF dAfter.fmt # "none" /\ dBefore.fmt # "none" /\ dAfter.t >= dBefore.t
                   THEN IsoDate(dBefore.t - 1)
                   ELSE dAfter
    IN  [publishedAfter |-> dAfter1, publishedBefore |-> dBefore]

\* server/index.js: an order outside allowedOrders becomes 'date'
SrvOrder(order) ==
    IF order # "" /\ order \notin {"date", "rating", "relevance", "title",
                                   "videoCount", "viewCount"}
    THEN "date" ELSE order

\* server/index.js: maxResults sent upstream, clamped to [1..50], '24' when the
\* parameter is not a run of digits
SrvMaxResults(raw) ==
    IF raw = <<>> \/ raw[1] = NaN \/ raw[1] < 0 THEN 24 ELSE Max(1, Min(50, raw[1]))

\* server/index.js cacheKey (the filters the client never sets are left out)
SrvCacheKey(q, pageToken, order, maxResults, window) ==
    [q |-> q, pageToken |-> pageToken, order |-> order, maxResults |-> maxResults,
     publishedAfter |-> window.publishedAfter, publishedBefore |-> window.publishedBefore]

\* server/index.js getCache: an entry past expiresAt counts as absent (found
\* and enriched are history carried with the entry)
SrvCacheFresh(entry, now) == ~(now > entry.expiresAt)

\* the status the catch block of the handler answers with
SrvErrorStatus(status) ==
    LET st == IF status = 0 THEN 500 ELSE status
    IN  IF st >= 400 /\ st < 500 THEN st ELSE 502

\* the handler up to its first await: parameters normalized, cache looked up
SrvRecv(o) ==
    /\ o \in DOMAIN ops
    /\ ops[o].pc = "p_sent"
    /\ LET key == ops[o].key
           q == Trim(key.q)
           order == SrvOrder(OrderOf(key.opts))
           window == SrvNormalizeWindow(key.opts.publishedAfter,
                                        key.opts.publishedBefore, clock)
           raw == <<ops[o].maxResults>>
           cacheKey == SrvCacheKey(q, key.pageToken, order, raw, window)
           stored == cacheKey \in DOMAIN srvCache
           age == IF stored
                  THEN clock - (srvCache[cacheKey].expiresAt - CACHE_TTL_SECONDS)
                  ELSE 0 - 1
           op1 == [ops[o] EXCEPT !.srvKey = cacheKey, !.srvOrder = order,
                                 !.srvMaxResults = SrvMaxResults(raw), !.srvAge = age]
       IN  IF stored /\ SrvCacheFresh(srvCache[cacheKey], clock) THEN
               /\ ops' = [ops EXCEPT ![o] =
                            [op1 EXCEPT !.pc = "p_resp", !.srvHit = TRUE,
                                !.found = srvCache[cacheKey].found,
                                !.enriched = srvCache[cacheKey].enriched,
                                !.resp = HttpOk([srvCache[cacheKey].data
                                                   EXCEPT !.cached = TRUE])]]
               /\ UNCHANGED srvCache
           ELSE
               /\ ops' = [ops EXCEPT ![o] = [op1 EXCEPT !.pc = "s_search",
                                                        !.sent = <<"search">>]]
               /\ srvCache' = Remove(srvCache, cacheKey)
    /\ UNCHANGED <<clock, ticks, reloads, hasClientKey, pager, classifier, favorites,
                   searchCache, cacheObj, sessionStore, inFlightSearch, seenMap, calls,
                   fetchLog, failedOps, app>>

\* the handler after its three upstream responses: filter, rank, setCache
SrvFinish(o, items, next, detailsMap, channelMap) ==
    LET payload == Response(ops[o].srvKey.q,
                            ServerItems(items, detailsMap, channelMap,
                                IF ops[o].srvOrder = "" THEN "date" ELSE ops[o].srvOrder),
                            next, FALSE)
    IN  /\ srvCache' = Put(srvCache, ops[o].srvKey,
                           [data |-> payload, expiresAt |-> clock + CACHE_TTL_SECONDS,
                            found |-> ops[o].found, enriched |-> ops[o].enriched])
        /\ ops' = [ops EXCEPT ![o].pc = "p_resp", ![o].resp = HttpOk(payload),
                              ![o].items = <<>>, ![o].next = "",
                              ![o].detailsMap = EmptyMap, ![o].channelMap = EmptyMap]

\* axios rejects on every non-2xx answer and on a transport error alike
SrvSearchResp(o, out) ==
    /\ o \in DOMAIN ops
    /\ ops[o].pc = "s_search"
    /\ IF out.kind # "ok" THEN
           /\ ops' = [ops EXCEPT ![o].pc = "p_resp",
                                 ![o].resp = HttpError(SrvErrorStatus(out.status))]
           /\ UNCHANGED srvCache
       ELSE IF out.items # <<>> THEN
           /\ ops' = [ops EXCEPT ![o].pc = SrvPc(NextCall(out.items)),
                                 ![o].items = SnippetsOf(out.items), ![o].next = out.next,
                                 ![o].found = FoundIds(out.items),
                                 ![o].sent = Append(@, NextCall(out.items))]
           /\ UNCHANGED srvCache
       ELSE SrvFinish(o, <<>>, out.next, EmptyMap, EmptyMap)
    /\ UNCHANGED <<clock, ticks, reloads, hasClientKey, pager, classifier, favorites,
                   searchCache, cacheObj, sessionStore, inFlightSearch, seenMap, calls,
                   fetchLog, failedOps, app>>

SrvDetailsResp(o, out) ==
    /\ o \in DOMAIN ops
    /\ ops[o].pc = "s_details"
    /\ IF out.kind # "ok" THEN
           ops' = [ops EXCEPT ![o] = [Ended(@, "p_resp") EXCEPT
                                         !.resp = HttpError(SrvErrorStatus(
                                             IF out.kind = "http" THEN 500 ELSE 0))]]
       ELSE
           ops' = [ops EXCEPT ![o].pc = "s_channels",
                              ![o].detailsMap = DetailsMapOf(ops[o].items, out.have),
                              ![o].enriched = DOMAIN DetailsMapOf(ops[o].items, out.have),
                              ![o].sent = Append(@, "channels")]
    /\ UNCHANGED <<clock, ticks, reloads, hasClientKey, pager, classifier, favorites,
                   searchCache, cacheObj, sessionStore, inFlightSearch, seenMap, calls,
                   fetchLog, failedOps, srvCache, app>>

SrvChannelsResp(o, kind) ==
    /\ o \in DOMAIN ops
    /\ ops[o].pc = "s_channels"
    /\ IF kind # "ok" THEN
           /\ ops' = [ops EXCEPT ![o] = [Ended(@, "p_resp") EXCEPT
                                            !.resp = HttpError(SrvErrorStatus(
                                                IF kind = "http" THEN 500 ELSE 0))]]
           /\ UNCHANGED srvCache
       ELSE SrvFinish(o, ops[o].items, ops[o].next, ops[o].detailsMap,
                      ChannelMapOf(ops[o].items))
    /\ UNCHANGED <<clock, ticks, reloads, hasClientKey, pager, classifier, favorites,
                   searchCache, cacheObj, sessionStore, inFlightSearch, seenMap, calls,
                   fetchLog, failedOps, app>>

\* fetchViaProxy resumes with the proxy's answer, then the IIFE ends
ProxyResp(o) ==
    /\ o \in DOMAIN ops
    /\ ops[o].pc = "p_resp"
    /\ IF ops[o].client = "gone" THEN
           /\ ops' = [ops EXCEPT ![o] = Ended(@, "gone")]
           /\ UNCHANGED <<searchCache, cacheObj, sessionStore, inFlightSearch, calls,
                          fetchLog>>
       ELSE IF ops[o].resp.ok THEN Complete(o, ops[o].resp.data)
       ELSE Fail(o, "Proxy search failed")
    /\ failedOps' = IF ops[o].client = "live" /\ ~ops[o].resp.ok
                    THEN failedOps \cup {o} ELSE failedOps
    /\ UNCHANGED <<clock, ticks, reloads, hasClientKey, pager, classifier, favorites,
                   seenMap, srvCache, app>>

\* the request never reaches the proxy: fetch rejects
ProxyUnreachable(o) ==
    /\ o \in DOMAIN ops
    /\ ops[o].pc = "p_sent"
    /\ ops[o].client = "live"
    /\ Fail(o, "Failed to fetch")
    /\ failedOps' = failedOps \cup {o}
    /\ UNCHANGED <<clock, ticks, reloads, hasClientKey, pager, classifier, favorites,
                   seenMap, srvCache, app>>

-----------------------------------------------------------------------------
(* The environment: time and the page's life cycle *)

Tick(d) ==
    /\ clock' = clock + d
    /\ ticks' = ticks + 1
    /\ UNCHANGED <<reloads, hasClientKey, pager, classifier, favorites, searchCache,
                   cacheObj, sessionStore, inFlightSearch, seenMap, ops, calls, fetchLog,
                   failedOps, srvCache, app>>

\* a full page reload: the module-level maps of api.ts start empty again and
\* the promises of the old page are never settled; sessionStorage and the
\* server are untouched, and requests already sent to the proxy are still served
Reload ==
    /\ reloads' = reloads + 1
    /\ searchCache' = EmptyMap
    /\ cacheObj' = EmptyMap
    /\ inFlightSearch' = EmptyMap
    /\ seenMap' = EmptyMap
    /\ ops' = [o \in DOMAIN ops |->
                 IF ~Pending(o) THEN ops[o]
                 ELSE IF ops[o].mode = "yt" THEN Ended(ops[o], "gone")
                 ELSE [ops[o] EXCEPT !.client = "gone"]]
    /\ calls' = [c \in DOMAIN calls |->
                   IF calls[c].status = "pending"
                   THEN [calls[c] EXCEPT !.status = "lost"] ELSE calls[c]]
    /\ UNCHANGED <<clock, ticks, hasClientKey, pager, classifier, favorites,
                   sessionStore, fetchLog, failedOps, srvCache, app>>

-----------------------------------------------------------------------------
(* The category classifier *)

\* computeCategoriesPool: the keywords of Music
MUSIC_WORDS ==
    { <<"m","u","s","i","c">>,
      <<"s","o","n","g">>,
      <<"i","n","s","t","r","u","m","e","n","t","a","l">>,
      <<"t","r","a","c","k">>,
      <<"l","y","r","i","c","s">> }

\* computeCategoriesPool: the keywords of Sports
SPORTS_WORDS ==
    { <<"s","p","o","r","t">>,
      <<"f","o","o","t","b","a","l","l">>,
      <<"s","o","c","c","e","r">>,
      <<"b","a","s","k","e","t","b","a","l","l">>,
      <<"c","r","i","c","k","e","t">>,
      <<"h","i","g","h","l","i","g","h","t","s">>,
      <<"m","a","t","c","h">>,
      <<"n","b","a">>,
      <<"n","f","l">> }

\* computeCategoriesPool: the keywords of Kids
KIDS_WORDS ==
    { <<"k","i","d","s">>,
      <<"k","i","d">>,
      <<"c","h","i","l","d","r","e","n">>,
      <<"c","h","i","l","d">>,
      <<"n","u","r","s","e","r","y">>,
      <<"c","a","r","t","o","o","n">>,
      <<"f","a","m","i","l","y">>,
      <<"b","a","b","y">> }

\* computeCategoriesPool: the keywords of News
NEWS_WORDS ==
    { <<"n","e","w","s">>,
      <<"b","r","e","a","k","i","n","g">>,
      <<"h","e","a","d","l","i","n","e">>,
      <<"u","p","d","a","t","e">>,
      <<"r","e","p","o","r","t">> }

\* computeCategoriesPool: the keywords of Entertainment
ENTERTAINMENT_WORDS ==
    { <<"e","n","t","e","r","t","a","i","n","m","e","n","t">>,
      <<"f","u","n","n","y">>,
      <<"c","o","m","e","d","y">>,
      <<"p","r","a","n","k">>,
      <<"v","i","r","a","l">>,
      <<"t","r","e","n","d","i","n","g">>,
      <<"m","e","m","e">> }

\* computeCategoriesPool: the keywords of Educational
EDUCATIONAL_WORDS ==
    { <<"t","u","t","o","r","i","a","l">>,
      <<"h","o","w"," ","t","o">>,
      <<"l","e","s","s","o","n">>,
      <<"l","e","a","r","n">>,
      <<"e","d","u","c","a","t","i","o","n">>,
      <<"s","c","i","e","n","c","e">>,
      <<"d","i","y">>,
      <<"e","x","p","l","a","i","n","e","d">> }

\* const safe = (s) => (s || '').toLowerCase()
safe(s) == ToLowerCase(Chars(s))

\* const hasAny = (hay, words) => words.some(w => hay.includes(w))
hasAny(hay, words) == \E w \in words : Includes(hay, w)

\* tags.join(' ')
RECURSIVE JoinTags(_)
JoinTags(tags) ==
    IF tags = <<>> THEN <<>>
    ELSE IF Len(tags) = 1 THEN tags[1]
    ELSE tags[1] \o <<" ">> \o JoinTags(Tail(tags))

\* `${t}\n${d}\n${tags.join(' ')}`
HayOf(v) ==
    safe(v.title) \o <<"\n">> \o safe(v.description) \o <<"\n">>
        \o JoinTags([i \in 1..Len(v.tags) |-> safe(v.tags[i])])

\* arr.slice().sort((a, b) => key(b) - key(a)): a copy in descending order of
\* the keys, equal keys in the order of arr (Array.prototype.sort is stable)
SortedDesc(arr, keys) ==
    LET n == Len(arr)
        Place(i) == 1 + Cardinality({j \in 1..n :
                         keys[j] > keys[i] \/ (keys[j] = keys[i] /\ j < i)})
    IN  [p \in 1..n |-> arr[CHOOSE i \in 1..n : Place(i) = p]]

\* a variant that keeps no _seen set
pushUnique_NoSeen(arr, v) == IF v.videoId = "" THEN arr ELSE Append(arr, v)

\* pushUnique(arr, v): v is skipped when it has no videoId or when arr._seen,
\* the videoIds of the items of arr, holds its videoId
pushUnique(arr, v) ==
    IF v.videoId = "" \/ v.videoId \in IdsOf(arr) THEN arr ELSE Append(arr, v)

\* the loop over pool for one row: pushUnique(arr, v) for each v whose test
\* passed, in the order of pool (passes[i] is the test of pool[i])
RECURSIVE PushMatching(_, _, _)
PushMatching(arr, pool, passes) ==
    IF pool = <<>> THEN arr
    ELSE PushMatching(IF Head(passes) THEN pushUnique(arr, Head(pool)) ELSE arr,
                      Tail(pool), Tail(passes))

\* the tests of the six topic rows
IsMusic(v) == v.videoCategoryId = "10" \/ hasAny(HayOf(v), MUSIC_WORDS)
IsSports(v) == v.videoCategoryId = "17" \/ hasAny(HayOf(v), SPORTS_WORDS)
IsKids(v) == v.madeForKids \/ hasAny(HayOf(v), KIDS_WORDS)
IsNews(v) == v.videoCategoryId = "25" \/ hasAny(HayOf(v), NEWS_WORDS)
IsEntertainment(v) == v.videoCategoryId = "24" \/ hasAny(HayOf(v), ENTERTAINMENT_WORDS)
IsEducational(v) == v.videoCategoryId = "27" \/ hasAny(HayOf(v), EDUCATIONAL_WORDS)

\* the rows computed from the array the loops read
CategoriesOf(topViews, newest, pool) ==
    LET Row(Test(_)) == PushMatching(<<>>, pool, [i \in 1..Len(pool) |-> Test(pool[i])])
    IN  [topViews |-> topViews,
         newest |-> newest,
         music |-> Row(IsMusic),
         sports |-> Row(IsSports),
         kids |-> Row(IsKids),
         news |-> Row(IsNews),
         entertainment |-> Row(IsEntertainment),
         educational |-> Row(IsEducational)]

ViewsOf(arr) == [i \in 1..Len(arr) |-> arr[i].viewCount]
PublishedOf(arr) == [i \in 1..Len(arr) |-> arr[i].publishedAt]

\* a variant that sorts the pool itself, without the slice() before the sort
computeCategoriesPool_SortsInPlace(pool) ==
    LET topViews == SortedDesc(pool, ViewsOf(pool))
        byDate == SortedDesc(topViews, PublishedOf(topViews))
        newest == SubSeq(byDate, 1, Min(10, Len(byDate)))
    IN  [categories |-> CategoriesOf(topViews, newest, topViews), pool |-> topViews]

\* App.tsx computeCategoriesPool(pool): the record it returns, and the array
\* pool after the call (both sorts work on a copy, pushUnique pushes to arrays
\* of its own, nothing is assigned to pool or to an item of it)
computeCategoriesPool(pool) ==
    LET topViews == SortedDesc(pool, ViewsOf(pool))
        byDate == SortedDesc(pool, PublishedOf(pool))
        newest == SubSeq(byDate, 1, Min(10, Len(byDate)))
    IN  [categories |-> CategoriesOf(topViews, newest, pool), pool |-> pool]

\* a caller runs computeCategoriesPool on the array it holds
Classify ==
    /\ LET run == computeCategoriesPool(classifier.pool)
       IN  classifier' = [classifier EXCEPT !.pool = run.pool,
                                            !.runs = Append(@, run.categories)]
    /\ UNCHANGED <<clock, ticks, reloads, hasClientKey, searchCache, cacheObj,
                   sessionStore, inFlightSearch, seenMap, ops, calls, fetchLog,
                   failedOps, srvCache, app, pager, favorites>>

-----------------------------------------------------------------------------
(* The App component: initial load and load more *)

\* App.tsx AI_KEYWORDS
AI_KEYWORDS ==
    << <<"a","i"," ","m","u","s","i","c"," ","v","i","d","e","o">>,
       <<"a","i"," ","s","o","n","g">>,
       <<"a","i"," ","e","t","h","n","i","c"," ","m","u","s","i","c">>,
       <<"a","i"," ","m","u","s","i","c">> >>

BATCH_SIZE == 30
MONTH_CAP == 12
MaxLoadMores == 1   \* loadMoreForAny runs

\* App.tsx minusMonths: setMonth, then the last day of the month before when
\* the day of the month carried over
minusMonths(t, months) ==
    LET moved == SetMonthRel(t, 0 - months)
        c == Civil(moved)
    IN  IF c.d # Civil(t).d THEN MakeDay(c.y, c.m, 0) * (24 * 3600) + c.s ELSE moved

\* a variant that counts the months back from the current time
computeNextMonthWindow_FromNow(oldest, now, offsetMonths) ==
    [after |-> IsoDate(minusMonths(now, offsetMonths)),
     before |-> IsoDate(minusMonths(now, offsetMonths - 1))]

\* App.tsx computeNextMonthWindow
computeNextMonthWindow(oldest, now, offsetMonths) ==
    LET base == IF oldest < 0 THEN now ELSE oldest
    IN  [after |-> IsoDate(minusMonths(base, offsetMonths)),
         before |-> IsoDate(minusMonths(base, offsetMonths - 1))]

\* the options of every fetchSearch call the App makes
AppOpts(after, before) ==
    [order |-> "date", maxResults |-> <<BATCH_SIZE>>,
     publishedAfter |-> after, publishedBefore |-> before, kidFriendlyOnly |-> TRUE]

Settled(c) == c \in DOMAIN calls /\ calls[c].status \in {"resolved", "rejected"}

\* (resp.items || []).filter(v => v && v.videoId && !known.has(v.videoId))
NotIn(items, known) ==
    LET Fresh(v) == v.videoId # "" /\ v.videoId \notin known
    IN  SelectSeq(items, Fresh)

IdSeq(items) == [n \in 1..Len(items) |-> items[n].videoId]

\* the fetchSearch call of the App for a keyword and a window, with the App's
\* state after the statements before the call
AppFetch(app1, id, kw, after, before) ==
    /\ FetchSearch(id, "app", AI_KEYWORDS[kw], "", AppOpts(after, before))
    /\ app' = app1
    /\ UNCHANGED <<clock, ticks, reloads, hasClientKey, pager, classifier, favorites,
                   failedOps, srvCache>>

AppOnly(app1) ==
    /\ app' = app1
    /\ UNCHANGED <<clock, ticks, reloads, hasClientKey, pager, classifier, favorites,
                   searchCache, cacheObj, sessionStore, inFlightSearch, seenMap, ops,
                   calls, fetchLog, failedOps, srvCache>>

\* the initial-load effect runs: the IIFE up to its first await
AppMount ==
    /\ ~app.didInit
    /\ LET afterIso == IsoDate(SetMonthRel(clock, 0 - 6))
           id == FreshId(calls)
       IN  AppFetch([app EXCEPT !.didInit = TRUE, !.pc = "init", !.loading = TRUE,
                                !.loadProgress = 0, !.error = "",
                                !.oldestPublishedDate = afterIso.t,
                                !.pool = <<>>, !.i = 1, !.await = id],
                    id, 1, afterIso, IsoDate(clock))

\* a variant of the IIFE whose loop ends at the first keyword that fails
AppInitResume_AbortOnError ==
    /\ app.pc = "init"
    /\ Settled(app.await)
    /\ LET c == calls[app.await]
           ok == c.status = "resolved"
           items == IF ok THEN NotIn(c.data.items, IdsOf(app.pool)) ELSE <<>>
           pool == app.pool \o items
           app1 == [app EXCEPT
                      !.pool = pool,
                      !.monthsBackCounter[app.i] = IF ok THEN 1 ELSE @,
                      !.error = IF ok THEN @ ELSE c.error,
                      !.lastError = IF ok THEN @ ELSE c.error,
                      !.toasts = IF ok THEN @ ELSE @ + 1,
                      !.loadProgress = IF app.cancelled THEN @ ELSE app.i]
           id == FreshId(calls)
       IN  IF ok /\ app.i < Len(AI_KEYWORDS)
           THEN AppFetch([app1 EXCEPT !.i = app.i + 1, !.await = id],
                         id, app.i + 1, IsoDate(app.oldestPublishedDate),
                         c.args.opts.publishedBefore)
           ELSE AppOnly([app1 EXCEPT
                           !.pc = "ready", !.await = 0, !.pool = <<>>,
                           !.globalDisplayedIds =
                               IF app.cancelled THEN @ ELSE @ \cup IdsOf(pool),
                           !.allVideos = IF app.cancelled THEN @ ELSE pool,
                           !.categoryVideos =
                               IF app.cancelled THEN @
                               ELSE computeCategoriesPool(pool).categories,
                           !.loading = IF app.cancelled THEN @ ELSE FALSE])

\* the IIFE resumes after the fetchSearch of keyword i settled, and runs to its
\* next await or to its end
AppInitResume ==
    /\ app.pc = "init"
    /\ Settled(app.await)
    /\ LET c == calls[app.await]
           ok == c.status = "resolved"
           items == IF ok THEN NotIn(c.data.items, IdsOf(app.pool)) ELSE <<>>
           pool == app.pool \o items
           app1 == [app EXCEPT
                      !.pool = pool,
                      !.monthsBackCounter[app.i] = IF ok THEN 1 ELSE @,
                      !.error = IF ok THEN @ ELSE c.error,
                      !.lastError = IF ok THEN @ ELSE c.error,
                      !.toasts = IF ok THEN @ ELSE @ + 1,
                      !.loadProgress = IF app.cancelled THEN @ ELSE app.i]
           id == FreshId(calls)
       IN  IF app.i < Len(AI_KEYWORDS)
           THEN AppFetch([app1 EXCEPT !.i = app.i + 1, !.await = id],
                         id, app.i + 1, IsoDate(app.oldestPublishedDate),
                         c.args.opts.publishedBefore)
           ELSE AppOnly([app1 EXCEPT
                           !.pc = "ready", !.await = 0, !.pool = <<>>,
                           !.globalDisplayedIds =
                               IF app.cancelled THEN @ ELSE @ \cup IdsOf(pool),
                           !.allVideos = IF app.cancelled THEN @ ELSE pool,
                           !.categoryVideos =
                               IF app.cancelled THEN @
                               ELSE computeCategoriesPool(pool).categories,
                           !.loading = IF app.cancelled THEN @ ELSE FALSE])

\* the effect's cleanup
AppCleanup ==
    /\ app.didInit
    /\ ~app.cancelled
    /\ AppOnly([app EXCEPT !.cancelled = TRUE])

\* fetchNextMonthWindowGlobal: one turn of its loop, up to the await
NextWindowFetch(app1, kw, counter, attempts) ==
    LET w == computeNextMonthWindow(app.oldestPublishedDate, clock, counter)
        id == FreshId(calls)
    IN  AppFetch([app1 EXCEPT !.lmKw = kw, !.lmCounter = counter,
                              !.lmAttempts = attempts, !.lmAwait = id,
                              !.lmCalls = @ + 1, !.asked[kw] = Append(@, id)],
                 id, kw, w.after, w.before)

\* categoryVideos[cat.title] || []
DisplayedRow(a, name) ==
    IF name \in DOMAIN a.categoryVideos THEN a.categoryVideos[name] ELSE <<>>

\* the last of ROWS, the only row that is given onLoadMore and hasMore
LastRow == "educational"

\* CategorySection: the IntersectionObserver is created for the row that has
\* onLoadMore and hasMore when triggerRef is set, that is when the row renders
\* at least one card
TriggerArmed == DisplayedRow(app, LastRow) # <<>>

\* loadMoreForAny ended: finally { loadingMoreRef.current = false; ... }
LoadMoreDone(app1) ==
    AppOnly([app1 EXCEPT !.loadingMoreRef = FALSE, !.loadingMore = FALSE,
                         !.lmKw = 0, !.lmCounter = 0, !.lmAttempts = 0, !.lmAwait = 0,
                         !.lmFrom = 0, !.lmCalls = 0])

\* a variant of loadMoreForAny without the loadingMoreRef test
LoadMoreForAny_NoGuard ==
    /\ TriggerArmed
    /\ LET idx == app.keywordIndex % Len(AI_KEYWORDS)
           kw == idx + 1
           counter == IF app.monthsBackCounter[kw] = 0 THEN 1
                      ELSE app.monthsBackCounter[kw]
       IN  NextWindowFetch([app EXCEPT !.loadMores = @ + 1,
                                       !.lmFrom = app.monthsBackCounter[kw],
                                       !.picks = Append(@, kw),
                                       !.lmCalls = 0,
                                       !.loadingMoreRef = TRUE,
                                       !.loadingMore = TRUE,
                                       !.keywordIndex = (idx + 1) % Len(AI_KEYWORDS)],
                           kw, counter, 0)

\* a variant of loadMoreForAny that moves the cursor on only when the keyword
\* at the cursor has been loaded before
LoadMoreForAny_CursorWaits ==
    /\ TriggerArmed
    /\ IF app.loadingMoreRef
       THEN AppOnly([app EXCEPT !.loadMores = @ + 1])
       ELSE LET idx == app.keywordIndex % Len(AI_KEYWORDS)
                kw == idx + 1
                counter == IF app.monthsBackCounter[kw] = 0 THEN 1
                           ELSE app.monthsBackCounter[kw]
            IN  NextWindowFetch([app EXCEPT !.loadMores = @ + 1,
                                            !.lmFrom = app.monthsBackCounter[kw],
                                            !.picks = Append(@, kw),
                                            !.loadingMoreRef = TRUE,
                                            !.loadingMore = TRUE,
                                            !.keywordIndex =
                                                IF app.monthsBackCounter[kw] > 1
                                                THEN (idx + 1) % Len(AI_KEYWORDS)
                                                ELSE idx],
                                kw, counter, 0)

\* loadMoreForAny is called (the IntersectionObserver of the last row fires,
\* which needs a card in that row): it returns at once while a load is running,
\* else runs up to the first await of fetchNextMonthWindowGlobal
LoadMoreForAny ==
    /\ TriggerArmed
    /\ IF app.loadingMoreRef
       THEN AppOnly([app EXCEPT !.loadMores = @ + 1])
       ELSE LET idx == app.keywordIndex % Len(AI_KEYWORDS)
                kw == idx + 1
                counter == IF app.monthsBackCounter[kw] = 0 THEN 1
                           ELSE app.monthsBackCounter[kw]
            IN  NextWindowFetch([app EXCEPT !.loadMores = @ + 1,
                                            !.lmFrom = app.monthsBackCounter[kw],
                                            !.picks = Append(@, kw),
                                            !.loadingMoreRef = TRUE,
                                            !.loadingMore = TRUE,
                                            !.keywordIndex = (idx + 1) % Len(AI_KEYWORDS)],
                                kw, counter, 0)

\* a variant whose loop gives up one empty window later
LoadMoreResume_OneMoreWindow ==
    /\ app.loadingMoreRef
    /\ Settled(app.lmAwait)
    /\ LET c == calls[app.lmAwait]
           kw == app.lmKw
           filtered == NotIn(c.data.items, app.globalDisplayedIds)
       IN  IF c.status = "rejected" THEN
               LoadMoreDone([app EXCEPT
                   !.error = IF @ = ""
                             THEN "Failed to load more items. Please try again later."
                             ELSE @,
                   !.lastError = "Failed to load more items. Please try again later.",
                   !.toasts = @ + 1])
           ELSE IF Len(filtered) > 0 THEN
               LoadMoreDone([app EXCEPT
                   !.monthsBackCounter[kw] = app.lmCounter + 1,
                   !.globalDisplayedIds = @ \cup IdsOf(filtered),
                   !.allVideos = @ \o filtered,
                   !.categoryVideos =
                       computeCategoriesPool(app.allVideos \o filtered).categories,
                   !.batches = Append(@, IdSeq(filtered))])
           ELSE IF app.lmAttempts + 1 <= MONTH_CAP THEN
               NextWindowFetch([app EXCEPT !.monthsBackCounter[kw] = app.lmCounter + 1],
                               kw, app.lmCounter + 1, app.lmAttempts + 1)
           ELSE
               LoadMoreDone([app EXCEPT !.monthsBackCounter[kw] = app.lmCounter + 1])

\* a variant that computes the rows from the added batch alone
LoadMoreResume_RowsOfBatch ==
    /\ app.loadingMoreRef
    /\ Settled(app.lmAwait)
    /\ LET c == calls[app.lmAwait]
           kw == app.lmKw
           filtered == NotIn(c.data.items, app.globalDisplayedIds)
       IN  IF c.status = "rejected" THEN
               LoadMoreDone([app EXCEPT
                   !.error = IF @ = ""
                             THEN "Failed to load more items. Please try again later."
                             ELSE @,
                   !.lastError = "Failed to load more items. Please try again later.",
                   !.toasts = @ + 1])
           ELSE IF Len(filtered) > 0 THEN
               LoadMoreDone([app EXCEPT
                   !.monthsBackCounter[kw] = app.lmCounter + 1,
                   !.globalDisplayedIds = @ \cup IdsOf(filtered),
                   !.allVideos = @ \o filtered,
                   !.categoryVideos =
                       computeCategoriesPool(filtered).categories,
                   !.batches = Append(@, IdSeq(filtered))])
           ELSE IF app.lmAttempts + 1 < MONTH_CAP THEN
               NextWindowFetch([app EXCEPT !.monthsBackCounter[kw] = app.lmCounter + 1],
                               kw, app.lmCounter + 1, app.lmAttempts + 1)
           ELSE
               LoadMoreDone([app EXCEPT !.monthsBackCounter[kw] = app.lmCounter + 1])

\* a variant of loadMoreForAny without the finally block: a failed load
\* reports its error and leaves the flags set
LoadMoreResume_NoFinally ==
    /\ app.loadingMoreRef
    /\ Settled(app.lmAwait)
    /\ LET c == calls[app.lmAwait]
           kw == app.lmKw
           filtered == NotIn(c.data.items, app.globalDisplayedIds)
       IN  IF c.status = "rejected" THEN
               AppOnly([app EXCEPT
                   !.error = IF @ = ""
                             THEN "Failed to load more items. Please try again later."
                             ELSE @,
                   !.lastError = "Failed to load more items. Please try again later.",
                   !.toasts = @ + 1,
                   !.lmKw = 0, !.lmCounter = 0, !.lmAttempts = 0, !.lmAwait = 0,
                   !.lmFrom = 0, !.lmCalls = 0])
           ELSE IF Len(filtered) > 0 THEN
               LoadMoreDone([app EXCEPT
                   !.monthsBackCounter[kw] = app.lmCounter + 1,
                   !.globalDisplayedIds = @ \cup IdsOf(filtered),
                   !.allVideos = @ \o filtered,
                   !.categoryVideos =
                       computeCategoriesPool(app.allVideos \o filtered).categories,
                   !.batches = Append(@, IdSeq(filtered))])
           ELSE IF app.lmAttempts + 1 < MONTH_CAP THEN
               NextWindowFetch([app EXCEPT !.monthsBackCounter[kw] = app.lmCounter + 1],
                               kw, app.lmCounter + 1, app.lmAttempts + 1)
           ELSE
               LoadMoreDone([app EXCEPT !.monthsBackCounter[kw] = app.lmCounter + 1])

\* a variant of fetchNextMonthWindowGlobal that stores the counter only when
\* it returns: a failed load leaves the counter as it found it
LoadMoreResume_CounterOnReturn ==
    /\ app.loadingMoreRef
    /\ Settled(app.lmAwait)
    /\ LET c == calls[app.lmAwait]
           kw == app.lmKw
           filtered == NotIn(c.data.items, app.globalDisplayedIds)
       IN  IF c.status = "rejected" THEN
               LoadMoreDone([app EXCEPT
                   !.monthsBackCounter[kw] = app.lmFrom,
                   !.error = IF @ = ""
                             THEN "Failed to load more items. Please try again later."
                             ELSE @,
                   !.lastError = "Failed to load more items. Please try again later.",
                   !.toasts = @ + 1])
           ELSE IF Len(filtered) > 0 THEN
               LoadMoreDone([app EXCEPT
                   !.monthsBackCounter[kw] = app.lmCounter + 1,
                   !.globalDisplayedIds = @ \cup IdsOf(filtered),
                   !.allVideos = @ \o filtered,
                   !.categoryVideos =
                       computeCategoriesPool(app.allVideos \o filtered).categories,
                   !.batches = Append(@, IdSeq(filtered))])
           ELSE IF app.lmAttempts + 1 < MONTH_CAP THEN
               NextWindowFetch([app EXCEPT !.monthsBackCounter[kw] = app.lmCounter + 1],
                               kw, app.lmCounter + 1, app.lmAttempts + 1)
           ELSE
               LoadMoreDone([app EXCEPT !.monthsBackCounter[kw] = app.lmCounter + 1])

\* a variant of loadMoreForAny that puts the new items in front of the pool
LoadMoreResume_Prepends ==
    /\ app.loadingMoreRef
    /\ Settled(app.lmAwait)
    /\ LET c == calls[app.lmAwait]
           kw == app.lmKw
           filtered == NotIn(c.data.items, app.globalDisplayedIds)
       IN  IF c.status = "rejected" THEN
               LoadMoreDone([app EXCEPT
                   !.error = IF @ = ""
                             THEN "Failed to load more items. Please try again later."
                             ELSE @,
                   !.lastError = "Failed to load more items. Please try again later.",
                   !.toasts = @ + 1])
           ELSE IF Len(filtered) > 0 THEN
               LoadMoreDone([app EXCEPT
                   !.monthsBackCounter[kw] = app.lmCounter + 1,
                   !.globalDisplayedIds = @ \cup IdsOf(filtered),
                   !.allVideos = filtered \o @,
                   !.categoryVideos =
                       computeCategoriesPool(filtered \o app.allVideos).categories,
                   !.batches = Append(@, IdSeq(filtered))])
           ELSE IF app.lmAttempts + 1 < MONTH_CAP THEN
               NextWindowFetch([app EXCEPT !.monthsBackCounter[kw] = app.lmCounter + 1],
                               kw, app.lmCounter + 1, app.lmAttempts + 1)
           ELSE
               LoadMoreDone([app EXCEPT !.monthsBackCounter[kw] = app.lmCounter + 1])

\* fetchNextMonthWindowGlobal resumes after its fetchSearch settled
LoadMoreResume ==
    /\ app.loadingMoreRef
    /\ Settled(app.lmAwait)
    /\ LET c == calls[app.lmAwait]
           kw == app.lmKw
           filtered == NotIn(c.data.items, app.globalDisplayedIds)
       IN  IF c.status = "rejected" THEN
               LoadMoreDone([app EXCEPT
                   !.error = IF @ = ""
                             THEN "Failed to load more items. Please try again later."
                             ELSE @,
                   !.lastError = "Failed to load more items. Please try again later.",
                   !.toasts = @ + 1])
           ELSE IF Len(filtered) > 0 THEN
               LoadMoreDone([app EXCEPT
                   !.monthsBackCounter[kw] = app.lmCounter + 1,
                   !.globalDisplayedIds = @ \cup IdsOf(filtered),
                   !.allVideos = @ \o filtered,
                   !.categoryVideos =
                       computeCategoriesPool(app.allVideos \o filtered).categories,
                   !.batches = Append(@, IdSeq(filtered))])
           ELSE IF app.lmAttempts + 1 < MONTH_CAP THEN
               NextWindowFetch([app EXCEPT !.monthsBackCounter[kw] = app.lmCounter + 1],
                               kw, app.lmCounter + 1, app.lmAttempts + 1)
           ELSE
               LoadMoreDone([app EXCEPT !.monthsBackCounter[kw] = app.lmCounter + 1])

-----------------------------------------------------------------------------
(* The favorites slice of the store *)

\* a variant of the reducer that never removes
toggleFavorite_AddOnly(byId, v) == Put(byId, v.videoId, v)

\* favoritesSlice.ts toggleFavorite: the byId it leaves.  byId is keyed by
\* YouTube video ids, none of which names a member of Object.prototype, so
\* state.byId[v.videoId] is truthy exactly for the keys byId holds.
toggleFavorite(byId, v) ==
    IF v.videoId \in DOMAIN byId THEN Remove(byId, v.videoId)
    ELSE Put(byId, v.videoId, v)

\* Object.fromEntries(entries) on top of the properties of base: a later
\* entry replaces an earlier one with the same key
RECURSIVE FromEntries(_, _)
FromEntries(base, list) ==
    IF list = <<>> THEN base
    ELSE FromEntries(Put(base, Head(list).videoId, Head(list)), Tail(list))

\* a variant of the reducer that adds the list to the map it finds
setFavorites_Merge(byId, list) == FromEntries(byId, list)

\* favoritesSlice.ts setFavorites: the byId it leaves
setFavorites(byId, list) == FromEntries(EmptyMap, list)

\* favoritesSlice.ts initialState; the server's table is empty and no request
\* has been sent
FavoritesInit == [byId |-> EmptyMap, n |-> 0, log |-> <<>>, rows |-> EmptyMap, reqs |-> <<>>]

\* the slice after the reducer ran for a dispatched action
StoreAfter(type, payload, byId1) ==
    [favorites EXCEPT
        !.byId = byId1,
        !.n = @ + 1,
        !.log = (IF favorites.log = <<>> THEN <<>>
                 ELSE <<favorites.log[Len(favorites.log)]>>)
                \o <<[before |-> favorites.byId, type |-> type, payload |-> payload]>>]

FavoritesOnly(f) ==
    /\ favorites' = f
    /\ UNCHANGED <<clock, ticks, reloads, hasClientKey, searchCache, cacheObj,
                   sessionStore, inFlightSearch, seenMap, ops, calls, fetchLog,
                   failedOps, srvCache, app, pager, classifier>>

\* the store runs the reducer for a dispatched action
Dispatched(type, payload, byId1) == FavoritesOnly(StoreAfter(type, payload, byId1))

\* dispatch(toggleFavorite(v))
ToggleFavorite(v) == Dispatched("toggleFavorite", <<v>>, toggleFavorite(favorites.byId, v))

\* dispatch(setFavorites(list))
SetFavorites(list) == Dispatched("setFavorites", list, setFavorites(favorites.byId, list))

\* useAppSelector(s => Boolean(s.favorites.byId[item.videoId]))
IsFav(v) == v.videoId \in DOMAIN favorites.byId

\* a request of a card's save button: saveFavorite(item) sends POST
\* /api/favorites with the item as body, removeFavorite(item.videoId) sends
\* DELETE /api/favorites/:videoId
\*   status: "sent" | "ok" (resp.ok) | "failed" (fetch rejected or !resp.ok)
\*   toast: "" while the handler awaits, then "success" or "error"
FavRequest(method, v) ==
    [method |-> method, videoId |-> v.videoId, body |-> v, status |-> "sent", toast |-> ""]

\* VideoCard: the save button's onClick up to its await
CardClick(v) ==
    FavoritesOnly([StoreAfter("toggleFavorite", <<v>>, toggleFavorite(favorites.byId, v))
                      EXCEPT !.reqs = Append(@, FavRequest(IF IsFav(v) THEN "DELETE"
                                                           ELSE "POST", v))])

\* Favorites: the Unsave button of the entry Object.values(byId) lists for id
PanelUnsave(id) ==
    /\ id \in DOMAIN favorites.byId
    /\ ToggleFavorite(favorites.byId[id])

\* the columns the server writes from the body
FavRow(body) == [videoId |-> body.videoId, title |-> body.title, publishedAt |-> body.publishedAt]

\* server/index.js app.post('/api/favorites') and
\* app.delete('/api/favorites/:videoId') handle request n and answer
SrvFavorite(n) ==
    /\ n \in 1..Len(favorites.reqs)
    /\ favorites.reqs[n].status = "sent"
    /\ LET r == favorites.reqs[n]
       IN  IF r.method = "POST" THEN
               IF r.videoId = ""
               THEN FavoritesOnly([favorites EXCEPT !.reqs[n].status = "failed"])
               ELSE FavoritesOnly([favorites EXCEPT
                                      !.rows = Put(@, r.videoId, FavRow(r.body)),
                                      !.reqs[n].status = "ok"])
           ELSE FavoritesOnly([favorites EXCEPT
                                  !.rows = IF r.videoId \in DOMAIN @
                                           THEN Remove(@, r.videoId) ELSE @,
                                  !.reqs[n].status = "ok"])

\* request n does not reach the server
FavUnreachable(n) ==
    /\ n \in 1..Len(favorites.reqs)
    /\ favorites.reqs[n].status = "sent"
    /\ FavoritesOnly([favorites EXCEPT !.reqs[n].status = "failed"])

\* VideoCard: the onClick handler resumes after its await
CardResume(n) ==
    /\ n \in 1..Len(favorites.reqs)
    /\ favorites.reqs[n].status \in {"ok", "failed"}
    /\ favorites.reqs[n].toast = ""
    /\ FavoritesOnly([favorites EXCEPT
                         !.reqs[n].toast = IF favorites.reqs[n].status = "ok"
                                           THEN "success" ELSE "error"])

-----------------------------------------------------------------------------
(* Specification of the search client and the proxy *)

WinAfter == Now0 - 40 * 24 * 3600
WinBefore == Now0 - 24 * 3600

Args(q, pageToken, opts) == [q |-> q, pageToken |-> pageToken, opts |-> opts]

\* the arguments the page's callers pass to fetchSearch: two queries that
\* differ in letter case and page token
UserInputs ==
    { Args(Str_ai, "", Opts("date", <<30>>, IsoDate(WinAfter), IsoDate(WinBefore))),
      Args(Str_AI, "p2", Opts("date", <<30>>, IsoDate(WinAfter), IsoDate(WinBefore))) }

SearchOutcomes ==
    { SearchOk(<<"a", "b">>, "p2"), SearchOk(<<"b", "w", "b">>, ""), SearchHttp(500, "") }

DetailsOutcomes == { DetailsOk(VideoIds) }

ChannelsOutcomes == { "ok" }

\* the page, the proxy and the App as they start
PageInit ==
    /\ clock = Now0
    /\ ticks = 0
    /\ reloads = 0
    /\ hasClientKey \in BOOLEAN
    /\ searchCache = EmptyMap
    /\ cacheObj = EmptyMap
    /\ sessionStore = EmptyMap
    /\ inFlightSearch = EmptyMap
    /\ seenMap = EmptyMap
    /\ ops = EmptyMap
    /\ calls = EmptyMap
    /\ fetchLog = EmptyMap
    /\ failedOps = {}
    /\ srvCache = EmptyMap
    /\ app = AppInit

\* the callers of the pure functions hold nothing yet; the store holds the
\* slice's initialState
IdleInit ==
    /\ classifier = [pool |-> <<>>, given |-> <<>>, runs |-> <<>>]
    /\ favorites = FavoritesInit

Init ==
    /\ PageInit
    /\ pager = [window |-> getDefaultDateWindow(Now0), trail |-> <<>>]
    /\ IdleInit

\* one step of the page, the proxy, the upstream API or the environment, the
\* callers' arguments and the upstream's answers drawn from the given sets
Step(inputs, searchOuts, detailsOuts, channelsOuts, tickSteps) ==
    \/ \E inp \in inputs :
          /\ Cardinality(DOMAIN calls) < MaxCalls
          /\ UserSearch(inp.q, inp.pageToken, inp.opts)
    \/ \E o \in DOMAIN ops, out \in searchOuts : SearchResp(o, out)
    \/ \E o \in DOMAIN ops, out \in detailsOuts : DetailsResp(o, out)
    \/ \E o \in DOMAIN ops, kind \in channelsOuts : ChannelsResp(o, kind)
    \/ \E o \in DOMAIN ops : SrvRecv(o)
    \/ \E o \in DOMAIN ops, out \in searchOuts : SrvSearchResp(o, out)
    \/ \E o \in DOMAIN ops, out \in detailsOuts : SrvDetailsResp(o, out)
    \/ \E o \in DOMAIN ops, kind \in channelsOuts : SrvChannelsResp(o, kind)
    \/ \E o \in DOMAIN ops : ProxyResp(o)
    \/ \E o \in DOMAIN ops : ProxyUnreachable(o)
    \/ \E d \in tickSteps : ticks < MaxTicks /\ Tick(d)
    \/ reloads < MaxReloads /\ Reload

Next == Step(UserInputs, SearchOutcomes, DetailsOutcomes, ChannelsOutcomes, TickSteps)

Spec == Init /\ [][Next]_vars

-----------------------------------------------------------------------------
(* Properties of the request cache and of in-flight sharing, under Spec *)

\* the calls made in the step
NewCalls == DOMAIN calls' \ DOMAIN calls

\* the operations of the open page that have not settled, for a cache key
PendingFor(key) ==
    {o \in DOMAIN ops : Pending(o) /\ ops[o].client = "live" /\ ops[o].key = key}

OpsFor(key) == {o \in DOMAIN ops : ops[o].key = key}

LastOpFor(key) == CHOOSE o \in OpsFor(key) : \A o2 \in OpsFor(key) : o2 <= o

\* the last operation started for the key ended in a failure
LastOpRejected(key) == OpsFor(key) # {} /\ ops[LastOpFor(key)].pc = "rejected"

\* the call that started the last successful operation for the key
FirstCallOf(key) ==
    LET done == {o \in OpsFor(key) : ops[o].pc = "resolved"}
        last == CHOOSE o \in done : \A o2 \in done : o2 <= o
    IN  CHOOSE c \in DOMAIN calls : calls[c].promise = last /\ calls[c].started

NoDupIds(items) ==
    \A m, n \in 1..Len(items) : items[m].videoId = items[n].videoId => m = n

\* C1: the calls with one cache key made while the first of them is pending
\* start exactly one upstream fetch: every operation was started by exactly
\* one call, a call made while an operation for its key is pending starts
\* nothing and waits for that operation, and the calls waiting for one
\* operation settle in the same step with the same status, payload and error
C1_SharedFetch ==
    /\ [](\A o \in DOMAIN ops :
             Cardinality({c \in DOMAIN calls :
                             calls[c].promise = o /\ calls[c].started}) = 1)
    /\ [][ /\ \A c \in NewCalls :
                PendingFor(calls'[c].key) # {} =>
                    /\ ops' = ops
                    /\ fetchLog' = fetchLog
                    /\ ~calls'[c].started
                    /\ calls'[c].promise \in PendingFor(calls'[c].key)
           /\ \A c1, c2 \in DOMAIN calls :
                (/\ calls[c1].promise # 0
                 /\ calls[c1].promise = calls[c2].promise
                 /\ calls[c1].status = "pending"
                 /\ calls[c2].status = "pending") =>
                    /\ calls'[c1].status = calls'[c2].status
                    /\ calls'[c1].data = calls'[c2].data
                    /\ calls'[c1].error = calls'[c2].error ]_vars

\* two callers shared one operation and both got its items
C1_Witness ==
    \E c1, c2 \in DOMAIN calls :
        /\ c1 # c2
        /\ calls[c1].promise # 0
        /\ calls[c1].promise = calls[c2].promise
        /\ calls[c1].started /\ ~calls[c2].started
        /\ calls[c1].status = "resolved" /\ calls[c2].status = "resolved"
        /\ calls[c1].data.items # <<>>
        /\ calls[c1].data = calls[c2].data

\* C2: at most one upstream fetch per cache key is outstanding: the in-flight
\* map holds a key exactly while the operation of the open page for that key
\* is pending, no two pending operations have one key, and the call that
\* follows a failed operation for its key starts a new operation
C2_OneOutstandingPerKey ==
    /\ [](/\ \A o1, o2 \in DOMAIN ops :
                (o1 \in PendingFor(ops[o1].key) /\ o2 \in PendingFor(ops[o1].key))
                    => o1 = o2
          /\ \A k \in DOMAIN inFlightSearch : PendingFor(k) = {inFlightSearch[k]}
          /\ \A o \in DOMAIN ops :
                o \in PendingFor(ops[o].key) =>
                    /\ ops[o].key \in DOMAIN inFlightSearch
                    /\ inFlightSearch[ops[o].key] = o)
    /\ [][ \A c \in NewCalls :
              LastOpRejected(calls'[c].key) =>
                  /\ calls'[c].started
                  /\ calls'[c].promise \notin DOMAIN ops
                  /\ calls'[c].promise = inFlightSearch'[calls'[c].key]
                  /\ ops'[calls'[c].promise].pc \in {"search", "p_sent"} ]_vars

\* an operation failed and a later one for the same key succeeded
C2_Witness ==
    \E o1, o2 \in DOMAIN ops :
        /\ o1 < o2
        /\ ops[o1].key = ops[o2].key
        /\ ops[o1].pc = "rejected"
        /\ ops[o2].pc = "resolved"
        /\ inFlightSearch = EmptyMap

\* C3: a call whose key was fetched successfully less than the TTL ago is
\* answered at once from the cache with cached = TRUE and the items of the
\* call that fetched them, and starts nothing; a proxy request whose key the
\* server stored less than CACHE_TTL_SECONDS ago is answered with the stored
\* items and cached = TRUE without an upstream call
C3_FreshCacheHit ==
    [][ /\ \A c \in NewCalls :
             LET key == calls'[c].key
                 age == StoredAge(key)
             IN  (key # NoKey /\ age >= 0 /\ age * 1000 < MAX_AGE_MS) =>
                     /\ calls'[c].status = "resolved"
                     /\ calls'[c].promise = 0
                     /\ calls'[c].data.cached
                     /\ calls'[c].data.items = calls[FirstCallOf(key)].data.items
                     /\ calls'[c].data.nextPageToken =
                            calls[FirstCallOf(key)].data.nextPageToken
                     /\ ops' = ops
                     /\ fetchLog' = fetchLog
        /\ \A o \in DOMAIN ops :
             (ops[o].pc = "p_sent" /\ ops'[o].pc \in {"p_resp", "s_search"}) =>
                 LET key == ops'[o].srvKey
                 IN  (/\ key \in DOMAIN srvCache
                      /\ clock - (srvCache[key].expiresAt - CACHE_TTL_SECONDS)
                             < CACHE_TTL_SECONDS) =>
                         /\ ops'[o].pc = "p_resp"
                         /\ ops'[o].resp.ok
                         /\ ops'[o].resp.data.cached
                         /\ ops'[o].resp.data.items = srvCache[key].data.items
                         /\ srvCache' = srvCache ]_vars

\* after a reload a call within the TTL was answered from the stored response
C3_Witness ==
    \E c \in DOMAIN calls :
        /\ calls[c].page > 0
        /\ calls[c].age >= 0 /\ calls[c].age * 1000 < MAX_AGE_MS
        /\ calls[c].promise = 0
        /\ calls[c].status = "resolved"
        /\ calls[c].data.cached
        /\ calls[c].data.items # <<>>

\* the proxy answered a request from its cache
C3_ServerHitReached ==
    \E o \in DOMAIN ops : ops[o].srvHit /\ ops[o].srvAge > 0

\* C4: a call whose key was last fetched more than the TTL ago is not answered
\* from the cache but goes upstream again, and a proxy request whose stored
\* entry is older than CACHE_TTL_SECONDS is not answered from the server cache
C4_ExpiredEntriesAbsent ==
    /\ \A c \in DOMAIN calls :
          (calls[c].key # NoKey /\ calls[c].age * 1000 > MAX_AGE_MS) =>
              /\ calls[c].promise # 0
              /\ calls[c].started
    /\ \A o \in DOMAIN ops : ops[o].srvAge > CACHE_TTL_SECONDS => ~ops[o].srvHit

\* the set of (scope, page) pairs: one per-query dedup scope of the direct path
SameScope(c1, c2) ==
    /\ calls[c1].key.mode = "yt" /\ calls[c2].key.mode = "yt"
    /\ calls[c1].page = calls[c2].page
    /\ ToLowerCase(calls[c1].key.q) = ToLowerCase(calls[c2].key.q)

Returned(c) == calls[c].status = "resolved" /\ calls[c].key.mode = "yt"

\* C5 as stated: within one dedup scope no videoId is in two returned responses
\* and no response holds an id twice
C5_NoIdInTwoResponses ==
    \A c1, c2 \in DOMAIN calls :
        (Returned(c1) /\ Returned(c2) /\ SameScope(c1, c2)) =>
            /\ NoDupIds(calls[c1].data.items)
            /\ c1 # c2 =>
                  IdsOf(calls[c1].data.items) \cap IdsOf(calls[c2].data.items) = {}

\* C5: within one dedup scope of the direct path no videoId is in the
\* responses of two different upstream fetches, and no returned response,
\* fetched or replayed from the cache, holds an id twice
C5_NoIdInTwoFetches ==
    /\ \A c \in DOMAIN calls : Returned(c) => NoDupIds(calls[c].data.items)
    /\ \A c1, c2 \in DOMAIN calls :
          (/\ c1 # c2
           /\ Returned(c1) /\ Returned(c2) /\ SameScope(c1, c2)
           /\ calls[c1].started /\ calls[c2].started) =>
              IdsOf(calls[c1].data.items) \cap IdsOf(calls[c2].data.items) = {}

\* two fetches of one scope both returned items
C5_Witness ==
    \E c1, c2 \in DOMAIN calls :
        /\ c1 # c2
        /\ Returned(c1) /\ Returned(c2) /\ SameScope(c1, c2)
        /\ calls[c1].started /\ calls[c2].started
        /\ calls[c1].data.items # <<>>
        /\ calls[c2].data.items # <<>>

\* C8: when the upstream search of an operation fails, the calls waiting for
\* it are rejected with an error and never resolved, neither cache tier nor
\* the seen-sets change, nothing is stored or registered for the key, and the
\* next call with the key goes upstream
C8_FailureLeavesNoTrace ==
    /\ [](\A o \in failedOps :
             /\ ops[o].pc = "rejected"
             /\ \A c \in DOMAIN calls :
                   calls[c].promise = o =>
                       calls[c].status = "rejected" /\ calls[c].error # "")
    /\ [][ /\ \A o \in failedOps' \ failedOps :
                /\ searchCache' = searchCache
                /\ sessionStore' = sessionStore
                /\ seenMap' = seenMap
                /\ ops[o].key \notin DOMAIN searchCache'
                /\ ops[o].key \notin DOMAIN sessionStore'
                /\ ops[o].key \notin DOMAIN inFlightSearch'
           /\ \A c \in NewCalls :
                (/\ OpsFor(calls'[c].key) # {}
                 /\ LastOpFor(calls'[c].key) \in failedOps) =>
                    /\ calls'[c].status = "pending"
                    /\ DOMAIN ops' # DOMAIN ops
                    /\ fetchLog'[calls'[c].key].n = LogOf(calls'[c].key).n + 1 ]_vars

\* a call was rejected by a failed upstream search and the next call with its
\* key started a new fetch
C8_Witness ==
    \E c1, c2 \in DOMAIN calls :
        /\ c1 < c2
        /\ calls[c1].key = calls[c2].key
        /\ calls[c1].status = "rejected" /\ calls[c1].promise \in failedOps
        /\ calls[c2].started
        /\ calls[c1].key \notin DOMAIN searchCache
        /\ calls[c1].key \notin DOMAIN sessionStore

-----------------------------------------------------------------------------
(* Specification of argument validation: calls with blank queries, inverted,
   empty, unparseable and absent window bounds *)

ValidOpts == Opts("date", <<30>>, IsoDate(WinAfter), IsoDate(WinBefore))

InputArgs ==
    { Args(Str_ai, "", ValidOpts),
      Args(Str_blank, "", ValidOpts),
      Args(Str_ai, "", Opts("date", <<30>>, IsoDate(WinBefore), IsoDate(WinAfter))),
      Args(Str_ai, "", Opts("date", <<30>>, IsoDate(WinAfter), ShortDate(WinAfter))),
      Args(Str_ai, "", Opts("date", <<30>>, BadDate, IsoDate(WinBefore))),
      Args(Str_ai, "", Opts("date", <<30>>, IsoDate(WinAfter), BadDate)),
      Args(Str_ai, "", Opts("date", <<30>>, BadDate, IsoDate(WinAfter))),
      Args(Str_ai, "", NoOpts) }

InputSearchOutcomes == { SearchOk(<<"a", "b">>, "") }

NextInput == Step(InputArgs, InputSearchOutcomes, DetailsOutcomes, ChannelsOutcomes, {1})

SpecInput == Init /\ [][NextInput]_vars

\* a bound the caller gave in a form Date can parse
Given(d) == d.fmt \in {"iso", "short"}

\* the window a call asks for once absent bounds have their defaults
EffAfter(opts, now) ==
    IF Given(opts.publishedAfter) THEN opts.publishedAfter.t ELSE SetMonthRel(now, 0 - 1)
EffBefore(opts, now) ==
    IF Given(opts.publishedBefore) THEN opts.publishedBefore.t ELSE now

Untouched ==
    UNCHANGED <<searchCache, cacheObj, sessionStore, inFlightSearch, seenMap, ops, fetchLog,
                failedOps, srvCache>>

\* C9: a call whose query is empty after trimming, or whose window has
\* publishedAfter >= publishedBefore, is rejected with an error at once; no
\* operation is started and the caches, the in-flight map, the seen-sets and
\* the server are left as they were
C9_InvalidArgsRejected ==
    [][ \A c \in NewCalls :
          LET a == calls'[c].args
          IN  (\/ Trim(a.q) = <<>>
               \/ (Given(a.opts.publishedAfter) /\ Given(a.opts.publishedBefore)
                     /\ a.opts.publishedAfter.t >= a.opts.publishedBefore.t)
               \/ EffAfter(a.opts, clock) >= EffBefore(a.opts, clock)) =>
                  /\ calls'[c].status = "rejected"
                  /\ calls'[c].error # ""
                  /\ calls'[c].promise = 0
                  /\ Untouched ]_vars

\* a blank query and an inverted window were both rejected, nothing started
C9_Witness ==
    \E c1, c2 \in DOMAIN calls :
        /\ Trim(calls[c1].args.q) = <<>>
        /\ calls[c1].status = "rejected"
        /\ Trim(calls[c2].args.q) # <<>>
        /\ calls[c2].args.opts.publishedAfter.t > calls[c2].args.opts.publishedBefore.t
        /\ calls[c2].status = "rejected"
        /\ ops = EmptyMap

HasBadBound(a) ==
    a.opts.publishedAfter.fmt = "bad" \/ a.opts.publishedBefore.fmt = "bad"

\* C10 as stated: a call with an unparseable window bound is rejected before
\* any upstream call
C10_MalformedDateRejected ==
    [][ \A c \in NewCalls :
          HasBadBound(calls'[c].args) =>
              /\ calls'[c].status = "rejected"
              /\ Untouched ]_vars

\* C10: an unparseable window bound is treated as an absent one: its default
\* (a month before now, resp. now) takes its place, the call is rejected at
\* once only when the resulting window has publishedAfter >= publishedBefore,
\* and otherwise goes on under the cache key of the resulting window
C10_MalformedDateDefaulted ==
    [][ \A c \in NewCalls :
          LET a == calls'[c].args
          IN  (HasBadBound(a) /\ Trim(a.q) # <<>>) =>
                  IF EffAfter(a.opts, clock) >= EffBefore(a.opts, clock)
                  THEN /\ calls'[c].status = "rejected"
                       /\ calls'[c].promise = 0
                       /\ Untouched
                  ELSE /\ calls'[c].status # "rejected"
                       /\ calls'[c].key.opts.publishedAfter
                              = IsoDate(EffAfter(a.opts, clock))
                       /\ calls'[c].key.opts.publishedBefore
                              = IsoDate(EffBefore(a.opts, clock)) ]_vars

\* a call with an unparseable publishedAfter went upstream and was answered,
\* and another such call was rejected for its resulting window
C10_Witness ==
    \E c1, c2 \in DOMAIN calls :
        /\ calls[c1].args.opts.publishedAfter.fmt = "bad"
        /\ calls[c1].started
        /\ calls[c1].status = "resolved"
        /\ calls[c2].args.opts.publishedAfter.fmt = "bad"
        /\ calls[c2].status = "rejected"
        /\ calls[c2].promise = 0

-----------------------------------------------------------------------------
(* Specification of the safety filter: pages with blocked candidates, the
   detail and channel calls failing or answering in part *)

FilterArgs == { Args(Str_ai, "", ValidOpts) }

FilterSearchOutcomes ==
    { SearchOk(<<"a", "w", "g">>, ""), SearchOk(<<"r", "d", "b">>, ""),
      SearchOk(<<"g", "r">>, "p2") }

FilterDetailsOutcomes ==
    { DetailsOk(VideoIds), DetailsOk({"a", "b", "d"}), DetailsHttp, DetailsNet }

FilterChannelsOutcomes == { "ok", "http", "net" }

NextFilter ==
    Step(FilterArgs, FilterSearchOutcomes, FilterDetailsOutcomes,
         FilterChannelsOutcomes, {1})

SpecFilter == Init /\ [][NextFilter]_vars

\* no blocklist term is a substring of the text, letter case ignored
Clean(text) ==
    LET t == ToLowerCase(Chars(text))
    IN  \A k \in CONTENT_BLOCKLIST \cup BLOCKLIST : ~Includes(t, k)

TextClean(v) ==
    /\ Clean(v.title)
    /\ Clean(v.description)
    /\ \A n \in 1..Len(v.tags) : Clean(v.tags[n])

AgeRestricted(id) == Details(id).ytRating = "ytAgeRestricted"

ReturnedItems(c) ==
    IF calls[c].status = "resolved" THEN Range(calls[c].data.items) ELSE {}

\* C7 as stated: whatever the detail call delivers, no returned item has a
\* blocklist term in its title, description or tags, and none has the
\* age-restricted rating
C7_NoUnsafeItemReturned ==
    \A c \in DOMAIN calls :
        \A v \in ReturnedItems(c) : TextClean(v) /\ ~AgeRestricted(v.videoId)

\* C7: no returned item has a blocklist term in its title, its description or
\* the tags it is returned with, and no returned item whose details record the
\* detail call delivered has the age-restricted rating
C7_NoUnsafeItemOfKnownRating ==
    \A c \in DOMAIN calls :
        \A v \in ReturnedItems(c) :
            /\ TextClean(v)
            /\ v.videoId \in ops[calls[c].origin].enriched => ~AgeRestricted(v.videoId)

\* a page with an age-restricted and a tag-blocked candidate, all details
\* delivered, was returned without them
C7_Witness ==
    \E c \in DOMAIN calls :
        LET o == calls[c].origin
        IN  /\ calls[c].status = "resolved"
            /\ calls[c].data.items # <<>>
            /\ ops[o].found = ops[o].enriched
            /\ \E id \in ops[o].found : AgeRestricted(id)
            /\ \E id \in ops[o].found : ~TextClean(ToVideoItem(Snippet(id), Details(id)))

-----------------------------------------------------------------------------
(* Specification of the App: the initial load over the keywords, then load
   more, against an upstream that answers by keyword and window and may fail
   or repeat a video within a page *)

\* the videos the upstream holds for each keyword, newest first
UpstreamVideos(q) ==
    IF q = AI_KEYWORDS[1] THEN <<"b", "a", "e">>
    ELSE IF q = AI_KEYWORDS[2] THEN <<"b", "w", "e">>
    ELSE IF q = AI_KEYWORDS[4] THEN <<"g", "a">>
    ELSE <<>>

\* search.list: the videos of the query published within the window
UpstreamPage(key) ==
    LET InWindow(id) == /\ Snippet(id).publishedAt >= key.opts.publishedAfter.t
                        /\ Snippet(id).publishedAt < key.opts.publishedBefore.t
    IN  SelectSeq(UpstreamVideos(key.q), InWindow)

\* what the upstream may answer to the search of an operation: the page, the
\* page with its first video listed once more, or an error
OrchSearchOutcomes(o) ==
    LET page == UpstreamPage(ops[o].key)
    IN  {SearchOk(page, ""), SearchHttp(500, "")}
            \cup (IF page = <<>> THEN {} ELSE {SearchOk(Append(page, page[1]), "")})

NextOrch ==
    \/ AppMount
    \/ AppInitResume
    \/ AppCleanup
    \/ app.loadMores < MaxLoadMores /\ LoadMoreForAny
    \/ LoadMoreResume
    \/ \E o \in DOMAIN ops : \E out \in OrchSearchOutcomes(o) : SearchResp(o, out)
    \/ \E o \in DOMAIN ops, out \in DetailsOutcomes : DetailsResp(o, out)
    \/ \E o \in DOMAIN ops, kind \in ChannelsOutcomes : ChannelsResp(o, kind)
    \/ \E o \in DOMAIN ops : SrvRecv(o)
    \/ \E o \in DOMAIN ops : \E out \in OrchSearchOutcomes(o) : SrvSearchResp(o, out)
    \/ \E o \in DOMAIN ops, out \in DetailsOutcomes : SrvDetailsResp(o, out)
    \/ \E o \in DOMAIN ops, kind \in ChannelsOutcomes : SrvChannelsResp(o, kind)
    \/ \E o \in DOMAIN ops : ProxyResp(o)
    \/ \E o \in DOMAIN ops : ProxyUnreachable(o)

SpecOrch == Init /\ [][NextOrch]_vars

NoDupSeq(ids) == \A m, n \in 1..Len(ids) : ids[m] = ids[n] => m = n

\* C6: the pool holds no videoId twice, and every batch a load more added is
\* free of duplicates and shares no id with an earlier batch
C6_PoolHasNoDuplicates ==
    /\ NoDupIds(app.allVideos)
    /\ \A k \in 1..Len(app.batches) :
          /\ NoDupSeq(app.batches[k])
          /\ \A j \in 1..(k - 1) : Range(app.batches[j]) \cap Range(app.batches[k]) = {}

\* the initial load built a pool and a load more added a batch to it
C6_BatchAdded ==
    /\ app.pc = "ready"
    /\ Len(app.batches) > 0
    /\ Len(app.allVideos) > Len(app.batches[1])

-----------------------------------------------------------------------------
(* Specification of the upstream failures: the search call is answered with
   every status, reason and message class the error handling tells apart *)

Msg_NotFound == <<"N","o","t"," ","f","o","u","n","d">>
Msg_DailyQuota == <<"D","a","i","l","y"," ","Q","u","o","t","a">>

ErrorSearchOutcomes ==
    { SearchOk(<<"a", "b">>, ""),
      SearchHttp(403, "forbidden"),
      SearchHttp(429, "quotaExceeded"),
      SearchHttp(400, "invalidArgument"),
      SearchHttp(500, "badRequest"),
      SearchHttpMsg(404, "notFound", Msg_NotFound),
      SearchHttp(401, ""),
      SearchHttpMsg(503, "", Msg_DailyQuota),
      SearchHttp(500, ""),
      SearchHttp(302, ""),
      SearchNet }

NextErrors ==
    Step(UserInputs, ErrorSearchOutcomes, FilterDetailsOutcomes, FilterChannelsOutcomes, {1})

SpecErrors == Init /\ [][NextErrors]_vars

\* the step is the arrival of the answer out to the search call of the direct
\* operation o
DirectSearchAnswered(o, out) ==
    /\ o \in DOMAIN ops
    /\ ops[o].pc = "search"
    /\ SearchResp(o, out)

\* the error the callers of operation o get in the step
ThrownTo(o, err) ==
    /\ ops'[o].pc = "rejected"
    /\ \E c \in DOMAIN calls : calls[c].promise = o
    /\ \A c \in DOMAIN calls :
          calls[c].promise = o => calls'[c].status = "rejected" /\ calls'[c].error = err

MentionsQuota(out) == Includes(ToLowerCase(out.message), <<"q","u","o","t","a">>)

-----------------------------------------------------------------------------
(* Properties of a partial enrichment failure, under SpecFilter *)

\* the search call of the operation delivered candidates
SearchSucceeded(o) == ops[o].found # {}

\* C12: an operation whose search call delivered candidates does not fail,
\* whatever happens to its detail and channel calls: on the direct path it is
\* not rejected, on the proxy path the server does not answer with an error;
\* an item returned without its details record carries the values of an
\* unknown one (not made for kids, no tags, no views)
C12_EnrichmentFailureNonFatal ==
    /\ \A o \in DOMAIN ops :
          SearchSucceeded(o) =>
              /\ ops[o].pc # "rejected"
              /\ ops[o].pc = "p_resp" => ops[o].resp.ok
    /\ \A c \in DOMAIN calls :
          \A v \in ReturnedItems(c) :
              v.videoId \notin ops[calls[c].origin].enriched =>
                  ~v.madeForKids /\ v.tags = <<>> /\ v.viewCount = 0

\* the proxy answered with an error although its search call had succeeded
C12_ProxyAborted ==
    \E o \in DOMAIN ops :
        ops[o].mode # "yt" /\ SearchSucceeded(o) /\ ops[o].pc = "p_resp" /\ ~ops[o].resp.ok

-----------------------------------------------------------------------------
(* Specification of the ranking: pages of candidates in several upstream
   orders, queried by date and by relevance, the details delivered in full or in
   part, the channel statistics delivered or not *)

RankArgs ==
    { Args(Str_ai, "", ValidOpts),
      Args(Str_ai, "", Opts("relevance", <<30>>, IsoDate(WinAfter), IsoDate(WinBefore))) }

RankSearchOutcomes ==
    { SearchOk(<<"e", "g", "a", "r", "b">>, ""), SearchOk(<<"a", "e", "b", "g">>, "") }

RankDetailsOutcomes == { DetailsOk(VideoIds), DetailsOk({"a", "b", "d"}) }

RankChannelsOutcomes == { "ok", "http" }

NextRank ==
    Step(RankArgs, RankSearchOutcomes, RankDetailsOutcomes, RankChannelsOutcomes, {1})

SpecRank == Init /\ [][NextRank]_vars

\* the place of the first candidate with the id in the upstream list
UpstreamIndex(cands, id) ==
    CHOOSE n \in 1..Len(cands) :
        cands[n].videoId = id /\ \A m \in 1..(n - 1) : cands[m].videoId # id

\* the channel of the video is established by the statistics the channel call
\* delivered
Established(channelMap, id) == SubsOf(channelMap, Snippet(id).channelId) >= 100000

\* the list out is ranked as the rules say, cands being the upstream list
Ranked(out, cands, channelMap, order) ==
    \A m, n \in 1..Len(out) :
        m < n =>
            LET x == out[m]
                y == out[n]
                ex == Established(channelMap, x.videoId)
                ey == Established(channelMap, y.videoId)
            IN  /\ x.videoId \in IdsOf(cands) /\ y.videoId \in IdsOf(cands)
                /\ ~(y.madeForKids /\ ~x.madeForKids)
                /\ (x.madeForKids = y.madeForKids) => ~(ey /\ ~ex)
                /\ (x.madeForKids = y.madeForKids /\ ex = ey) =>
                      IF order = "date"
                      THEN x.publishedAt >= y.publishedAt
                      ELSE UpstreamIndex(cands, x.videoId)
                               <= UpstreamIndex(cands, y.videoId)

ChannelMapFrom(items, kind) == IF kind = "ok" THEN ChannelMapOf(items) ELSE EmptyMap

-----------------------------------------------------------------------------
(* Properties of the initial load, under SpecOrch *)

\* the fetchSearch calls of the initial load: those for the window that ends
\* at the instant of the mount
InitCalls ==
    {c \in DOMAIN calls :
        calls[c].caller = "app" /\ calls[c].args.opts.publishedBefore = IsoDate(Now0)}

InitCallsFor(k) == {c \in InitCalls : calls[c].args.q = AI_KEYWORDS[k]}

\* the ids the successful keywords of the initial load returned
InitIds ==
    UNION {IdsOf(calls[c].data.items) : c \in {d \in InitCalls : calls[d].status = "resolved"}}

\* the ids the load-more batches added
BatchIds == UNION {Range(app.batches[k]) : k \in 1..Len(app.batches)}

-----------------------------------------------------------------------------
(* Specification of load more: the initial load, then several loadMoreForAny
   calls, against an upstream that answers by keyword and window and fails a
   bounded number of times *)

MaxMoreCalls == 4    \* loadMoreForAny calls
MaxFailures == 1     \* failed upstream or proxy requests

\* the requests that have failed so far
Failures ==
    Cardinality({o \in DOMAIN ops :
                    ops[o].pc = "rejected" \/ (ops[o].pc = "p_resp" /\ ~ops[o].resp.ok)})

\* what the upstream may answer to the search of an operation: the page, or an
\* error while the upstream may still fail
MoreSearchOutcomes(o) ==
    {SearchOk(UpstreamPage(ops[o].key), "")}
        \cup (IF Failures < MaxFailures THEN {SearchHttp(500, "")} ELSE {})

NextMore ==
    \/ AppMount
    \/ AppInitResume
    \/ app.loadMores < MaxMoreCalls /\ LoadMoreForAny
    \/ LoadMoreResume
    \/ \E o \in DOMAIN ops : \E out \in MoreSearchOutcomes(o) : SearchResp(o, out)
    \/ \E o \in DOMAIN ops, out \in DetailsOutcomes : DetailsResp(o, out)
    \/ \E o \in DOMAIN ops, kind \in ChannelsOutcomes : ChannelsResp(o, kind)
    \/ \E o \in DOMAIN ops : SrvRecv(o)
    \/ \E o \in DOMAIN ops : \E out \in MoreSearchOutcomes(o) : SrvSearchResp(o, out)
    \/ \E o \in DOMAIN ops, out \in DetailsOutcomes : SrvDetailsResp(o, out)
    \/ \E o \in DOMAIN ops, kind \in ChannelsOutcomes : SrvChannelsResp(o, kind)
    \/ \E o \in DOMAIN ops : ProxyResp(o)
    \/ \E o \in DOMAIN ops : Failures < MaxFailures /\ ProxyUnreachable(o)

SpecMore == Init /\ [][NextMore]_vars

\* monthsBackCounterRef.current[kw] || 1
CounterOf(raw) == IF raw = 0 THEN 1 ELSE raw

\* the running fetchNextMonthWindowGlobal returns in the step
LoadMoreEnds == app.loadingMoreRef /\ ~app'.loadingMoreRef

\* the fetchSearch calls of the running invocation that were answered without
\* a videoId new to globalDisplayedIds
EmptyWindows ==
    Cardinality({c \in DOMAIN calls :
                    /\ c > app.lmAwait - app.lmCalls /\ c <= app.lmAwait
                    /\ calls[c].status = "resolved"
                    /\ NotIn(calls[c].data.items, app.globalDisplayedIds) = <<>>})

\* C15: an invocation of fetchNextMonthWindowGlobal makes one fetchSearch call
\* per window, for consecutive months-back counters; when 12 windows in a row
\* brought no new videoId it returns with nothing added to the pool, having
\* made exactly 12 calls, and the keyword's counter is 12 above its value at
\* the start (an unset counter counting as 1); it never makes a 13th call
C15_GivesUpAfterTwelveEmptyWindows ==
    /\ [](app.loadingMoreRef =>
             /\ app.lmCalls <= MONTH_CAP
             /\ app.lmCalls = app.lmAttempts + 1
             /\ app.lmCounter = CounterOf(app.lmFrom) + app.lmAttempts
             /\ \A c \in DOMAIN calls :
                   (c > app.lmAwait - app.lmCalls /\ c <= app.lmAwait) =>
                       /\ calls[c].caller = "app"
                       /\ calls[c].args.q = AI_KEYWORDS[app.lmKw]
                       /\ calls[c].args.opts.publishedAfter =
                              computeNextMonthWindow(app.oldestPublishedDate, clock,
                                  CounterOf(app.lmFrom) + (c - (app.lmAwait - app.lmCalls)) - 1).after)
    /\ [][(LoadMoreEnds /\ EmptyWindows = MONTH_CAP) =>
             /\ app.lmCalls = MONTH_CAP
             /\ DOMAIN calls' = DOMAIN calls
             /\ app'.allVideos = app.allVideos
             /\ app'.batches = app.batches
             /\ app'.toasts = app.toasts
             /\ app'.monthsBackCounter =
                    [app.monthsBackCounter EXCEPT
                        ![app.lmKw] = CounterOf(app.lmFrom) + MONTH_CAP]]_vars

\* a load more for the second keyword returned empty-handed after 12 windows,
\* one of which held only a video the pool already had; its counter is at 13
C15_Witness ==
    /\ app.pc = "ready" /\ ~app.loadingMoreRef
    /\ app.keywordIndex = 2
    /\ app.monthsBackCounter[2] = 1 + MONTH_CAP
    /\ Len(app.batches) = 1
    /\ app.toasts = 0
    /\ \E c \in DOMAIN calls :
          /\ calls[c].args.q = AI_KEYWORDS[2]
          /\ calls[c].status = "resolved"
          /\ IdsOf(calls[c].data.items) = {"e"}

-----------------------------------------------------------------------------
(* Properties of the load-more guard and of the keyword cursor, under SpecMore *)

\* loadMoreForAny is called in the step
LoadMoreCalled == app'.loadMores = app.loadMores + 1

\* the fetchSearch calls of the App that have not settled
PendingAppCalls ==
    {c \in DOMAIN calls : calls[c].caller = "app" /\ calls[c].status = "pending"}

\* C16: at most one incremental load is in flight, and a loadMoreForAny call
\* made while one is pending changes nothing: no keyword is selected, the
\* cursor and the months-back counters stay, no fetchSearch call is made; nor
\* is it remembered: an incremental load only ever starts in the step of a
\* loadMoreForAny call
C16_OneLoadMoreAtATime ==
    /\ [](app.pc = "ready" =>
             /\ Cardinality(PendingAppCalls) <= 1
             /\ app.loadingMoreRef = (app.lmAwait # 0)
             /\ app.loadingMoreRef = app.loadingMore
             /\ PendingAppCalls \subseteq {app.lmAwait})
    /\ [][ /\ (LoadMoreCalled /\ app.loadingMoreRef) =>
                /\ app' = [app EXCEPT !.loadMores = @ + 1]
                /\ calls' = calls
                /\ ops' = ops
                /\ inFlightSearch' = inFlightSearch
           /\ (~app.loadingMoreRef /\ app'.loadingMoreRef) => LoadMoreCalled
           /\ (app.pc = "ready" /\ DOMAIN calls' # DOMAIN calls) =>
                 \/ LoadMoreCalled /\ ~app.loadingMoreRef
                 \/ app.loadingMoreRef /\ Settled(app.lmAwait) /\ ~LoadMoreCalled
         ]_vars

\* loadMoreForAny was called twice while a load was pending and once after it
\* ended: two loads were started in all, for the first and the second keyword
C16_Witness ==
    /\ app.loadMores = 4
    /\ app.keywordIndex = 2
    /\ app.loadingMoreRef
    /\ app.lmKw = 2
    /\ Len(app.batches) = 1

\* a fetchNextMonthWindowGlobal run begins in the step
LoadMoreBegins == LoadMoreCalled /\ ~app.loadingMoreRef

\* C17: every loadMoreForAny call that passes the guard selects the keyword at
\* the cursor, makes its first fetchSearch call for it and moves the cursor on
\* by one modulo the number of keywords; no other step moves the cursor,
\* whether the load then adds a batch, finds nothing or fails; so the n-th
\* load selects keyword ((n - 1) mod 4) + 1
C17_RoundRobinCursor ==
    /\ [](/\ app.keywordIndex \in 0..(Len(AI_KEYWORDS) - 1)
          /\ app.keywordIndex = Len(app.picks) % Len(AI_KEYWORDS)
          /\ \A n \in 1..Len(app.picks) :
                app.picks[n] = ((n - 1) % Len(AI_KEYWORDS)) + 1)
    /\ [][ /\ LoadMoreBegins =>
                /\ app'.lmKw = app.keywordIndex + 1
                /\ app'.picks = Append(app.picks, app.keywordIndex + 1)
                /\ app'.keywordIndex = (app.keywordIndex + 1) % Len(AI_KEYWORDS)
                /\ \E c \in DOMAIN calls' \ DOMAIN calls :
                      /\ DOMAIN calls' = DOMAIN calls \cup {c}
                      /\ calls'[c].args.q = AI_KEYWORDS[app.keywordIndex + 1]
           /\ ~LoadMoreBegins =>
                /\ app'.keywordIndex = app.keywordIndex
                /\ app'.picks = app.picks
                /\ app'.loadingMoreRef => app'.lmKw = app.lmKw
         ]_vars

\* four loads in a row selected the four keywords in list order; one of them
\* added a batch, one failed and one found nothing in 12 windows
C17_Witness ==
    /\ app.picks = <<1, 2, 3, 4>>
    /\ app.keywordIndex = 0
    /\ ~app.loadingMoreRef
    /\ Len(app.batches) >= 1
    /\ app.toasts = 1
    /\ \E k \in 1..Len(AI_KEYWORDS) : app.monthsBackCounter[k] = 1 + MONTH_CAP

-----------------------------------------------------------------------------
(* Specification of the window pager: a caller walks back in time with
   getNextWindowByMonths from windows that start on ordinary days, on the last
   day of a long month and on a leap day *)

MaxHops == 4          \* getNextWindowByMonths calls of the caller
MaxMonthsBack == 3    \* the largest monthsBack the caller passes

At(y, m, d, s) == MakeDay(y, m, d) * (24 * 3600) + s

StartWindows ==
    { getDefaultDateWindow(Now0),
      [publishedAfter |-> ShortDate(At(2024, 2, 31, 0)), publishedBefore |-> IsoDate(Now0)],
      [publishedAfter |-> IsoDate(At(2024, 1, 29, 3600)),
       publishedBefore |-> IsoDate(At(2024, 1, 29, 3601))],
      [publishedAfter |-> IsoDate(At(2024, 0, 31, 0)), publishedBefore |-> ShortDate(Now0)],
      [publishedAfter |-> IsoDate(At(2023, 11, 15, 0)),
       publishedBefore |-> IsoDate(At(2024, 0, 15, 0))] }

\* the caller replaces its window by the next older one
PageBack(monthsBack) ==
    /\ pager' = [window |-> getNextWindowByMonths(pager.window, monthsBack),
                 trail |-> Append(pager.trail, pager.window)]
    /\ UNCHANGED <<clock, ticks, reloads, hasClientKey, searchCache, cacheObj,
                   sessionStore, inFlightSearch, seenMap, ops, calls, fetchLog,
                   failedOps, srvCache, app, classifier, favorites>>

InitWindow ==
    /\ PageInit
    /\ IdleInit
    /\ pager \in {[window |-> w, trail |-> <<>>] : w \in StartWindows}

NextWindow ==
    \E monthsBack \in 1..MaxMonthsBack :
        Len(pager.trail) < MaxHops /\ PageBack(monthsBack)

SpecWindow == InitWindow /\ [][NextWindow]_vars

\* the windows the caller has held, the current one last
WindowsHeld == Append(pager.trail, pager.window)

\* C18: every window getNextWindowByMonths returns ends at the instant the
\* window it was given starts and starts strictly before it ends; so the
\* windows a caller walks through are strictly decreasing and do not overlap
C18_WindowsDecreaseWithoutOverlap ==
    \A n \in 1..Len(WindowsHeld) :
        /\ WindowsHeld[n].publishedAfter.t < WindowsHeld[n].publishedBefore.t
        /\ n > 1 =>
              /\ WindowsHeld[n].publishedBefore.t = WindowsHeld[n - 1].publishedAfter.t
              /\ WindowsHeld[n].publishedAfter.fmt = "iso"
              /\ WindowsHeld[n].publishedBefore.fmt = "iso"
        /\ \A m \in 1..(n - 1) :
              /\ WindowsHeld[n].publishedBefore.t <= WindowsHeld[m].publishedAfter.t
              /\ WindowsHeld[n].publishedAfter.t < WindowsHeld[m].publishedAfter.t

\* four steps back from a window that starts on March 31: the first step
\* brings a month whose day 31 carries over into the next month
C18_Witness ==
    /\ Len(pager.trail) = MaxHops
    /\ pager.trail[1].publishedAfter = ShortDate(At(2024, 2, 31, 0))
    /\ pager.trail[2].publishedAfter = IsoDate(At(2024, 2, 2, 0))

-----------------------------------------------------------------------------
(* Specification of the proxy's window repair: windows that end or lie in the
   future are sent through the client *)

Day == 24 * 3600

RepairArgs ==
    { Args(Str_ai, "", ValidOpts),
      Args(Str_ai, "", Opts("date", <<30>>, IsoDate(Now0 - Day), IsoDate(Now0 + 30 * Day))),
      Args(Str_ai, "", Opts("date", <<30>>, ShortDate(Now0 + 10 * Day),
                            IsoDate(Now0 + 30 * Day))),
      Args(Str_ai, "", Opts("date", <<30>>, IsoDate(Now0 + 1), IsoDate(Now0 + 2))) }

NextRepair ==
    Step(RepairArgs, InputSearchOutcomes, DetailsOutcomes, ChannelsOutcomes, {1})

SpecRepair == Init /\ [][NextRepair]_vars

\* the handler of GET /api/search takes up the request of operation o in the step
SrvTakesUp(o) == ops[o].pc = "p_sent" /\ ops'[o].pc # "p_sent" /\ SrvRecv(o)

-----------------------------------------------------------------------------
(* Specification of the result count: callers ask for no count, for counts
   below, within and above the limits, and for NaN *)

CountOpts(maxResults) == Opts("date", maxResults, IsoDate(WinAfter), IsoDate(WinBefore))

CountArgs ==
    { Args(Str_ai, "", CountOpts(<<>>)),
      Args(Str_ai, "", CountOpts(<<0 - 5>>)),
      Args(Str_ai, "", CountOpts(<<0>>)),
      Args(Str_ai, "", CountOpts(<<17>>)),
      Args(Str_ai, "", CountOpts(<<31>>)),
      Args(Str_ai, "", CountOpts(<<NaN>>)) }

NextCount ==
    Step(CountArgs, InputSearchOutcomes, DetailsOutcomes, ChannelsOutcomes, {1})

SpecCount == Init /\ [][NextCount]_vars

\* C20: the maxResults of every upstream search call is a number from 1 to 30
\* on the direct path, 30 when the caller gave none, and a number from 1 to
\* 50 on the proxy path
C20_MaxResultsWithinLimits ==
    \A o \in DOMAIN ops :
        /\ ops[o].mode = "yt" =>
              /\ ops[o].maxResults \in 1..30
              /\ ops[o].key.opts.maxResults = <<>> => ops[o].maxResults = 30
        /\ (ops[o].mode # "yt" /\ ops[o].srvKey # NoKey) =>
              ops[o].srvMaxResults \in 1..50

\* the server searched upstream for a request whose caller asked for NaN results
C20_ProxyCountReached ==
    \E o \in DOMAIN ops :
        /\ ops[o].mode # "yt"
        /\ ops[o].key.opts.maxResults = <<NaN>>
        /\ ops[o].srvKey # NoKey
        /\ ops[o].srvMaxResults = 24
        /\ ops[o].pc = "resolved"

-----------------------------------------------------------------------------
(* The category classifier, run on pools of up to MaxPoolLen videos drawn     *)
(* from eight videos (two pairs of them share a videoId and differ in what   *)
(* the details call delivered), and on one pool of eleven                    *)

MaxPoolLen == 3     \* videos in a pool
MaxRuns == 2        \* computeCategoriesPool calls of the caller

Video(id, title, tags, cat, views, at) ==
    [videoId |-> id, title |-> title, publishedAt |-> at, viewCount |-> views,
     description |-> "", tags |-> tags, videoCategoryId |-> cat, madeForKids |-> FALSE]

ClassifierVideos ==
    { ToVideoItem(Snippet("a"), Details("a")),
      ToVideoItem(Snippet("a"), NoDetails),
      ToVideoItem(Snippet("b"), Details("b")),
      ToVideoItem(Snippet("b"), NoDetails),
      Video("s", "Match highlights", <<>>, "17", 900, Now0 - 2 * 24 * 3600),
      Video("n", "Breaking news", <<>>, "", 20, Now0 - 3 * 24 * 3600),
      Video("f", "Funny kids cartoon", <<>>, "24", 0, Now0 - 30 * 24 * 3600),
      Video("t", "How to sing", <<"tutorial">>, "27", 500, Now0 - 24 * 3600) }

LongPool ==
    << ToVideoItem(Snippet("a"), NoDetails),
       Video("s", "Match highlights", <<>>, "17", 900, Now0 - 2 * 24 * 3600),
       ToVideoItem(Snippet("b"), Details("b")),
       ToVideoItem(Snippet("w"), NoDetails),
       ToVideoItem(Snippet("g"), Details("g")),
       Video("n", "Breaking news", <<>>, "", 20, Now0 - 3 * 24 * 3600),
       ToVideoItem(Snippet("d"), NoDetails),
       ToVideoItem(Snippet("e"), NoDetails),
       Video("f", "Funny kids cartoon", <<>>, "24", 0, Now0 - 30 * 24 * 3600),
       Video("t", "How to sing", <<"tutorial">>, "27", 500, Now0 - 24 * 3600),
       ToVideoItem(Snippet("a"), Details("a")) >>

ClassifierPools ==
    UNION {[1..n -> ClassifierVideos] : n \in 0..MaxPoolLen} \cup {LongPool}

InitClassify ==
    /\ PageInit
    /\ pager = [window |-> getDefaultDateWindow(Now0), trail |-> <<>>]
    /\ favorites = FavoritesInit
    /\ classifier \in {[pool |-> p, given |-> p, runs |-> <<>>] : p \in ClassifierPools}

NextClassify == Len(classifier.runs) < MaxRuns /\ Classify

SpecClassify == InitClassify /\ [][NextClassify]_vars

RowNames ==
    {"topViews", "newest", "music", "sports", "kids", "news", "entertainment",
     "educational"}

-----------------------------------------------------------------------------
(* The topic rows, under SpecClassify *)

TopicRows == {"music", "sports", "kids", "news", "entertainment", "educational"}

\* the text of a video's tag list
TagText(v) == JoinTags([i \in 1..Len(v.tags) |-> ToLowerCase(Chars(v.tags[i]))])

\* a keyword of the set is in the title, the description or the tags of v
KeywordIn(v, words) ==
    \E w \in words :
        \/ Includes(ToLowerCase(Chars(v.title)), w)
        \/ Includes(ToLowerCase(Chars(v.description)), w)
        \/ Includes(TagText(v), w)

\* v matches the topic: its category id or a keyword; for Kids the
\* made-for-kids flag or a keyword
MatchesTopic(v, topic) ==
    CASE topic = "music" -> v.videoCategoryId = "10" \/ KeywordIn(v, MUSIC_WORDS)
      [] topic = "sports" -> v.videoCategoryId = "17" \/ KeywordIn(v, SPORTS_WORDS)
      [] topic = "kids" -> v.madeForKids \/ KeywordIn(v, KIDS_WORDS)
      [] topic = "news" -> v.videoCategoryId = "25" \/ KeywordIn(v, NEWS_WORDS)
      [] topic = "entertainment" ->
            v.videoCategoryId = "24" \/ KeywordIn(v, ENTERTAINMENT_WORDS)
      [] topic = "educational" ->
            v.videoCategoryId = "27" \/ KeywordIn(v, EDUCATIONAL_WORDS)

\* the first place of item v in the array
FirstAt(arr, v) == CHOOSE i \in 1..Len(arr) : arr[i] = v /\ \A j \in 1..(i - 1) : arr[j] # v

\* C22: in every topic row computed from a pool, repeated ids or not, no
\* two items have the same videoId, every item is an item of the pool that
\* matches the topic, the items stand in the order of the pool, and a videoId
\* of the pool is in the row exactly when a pool video with that id matches
\* the topic.
C22_TopicRows ==
    \A r \in 1..Len(classifier.runs), topic \in TopicRows :
        LET row == classifier.runs[r][topic]
            pool == classifier.given
        IN  /\ NoDupIds(row)
            /\ \A k \in 1..Len(row) : row[k] \in Range(pool) /\ MatchesTopic(row[k], topic)
            /\ \A k \in 1..(Len(row) - 1) : FirstAt(pool, row[k]) < FirstAt(pool, row[k + 1])
            /\ \A i \in 1..Len(pool) :
                  pool[i].videoId \in IdsOf(row)
                      <=> \E j \in 1..Len(pool) : /\ pool[j].videoId = pool[i].videoId
                                                  /\ MatchesTopic(pool[j], topic)

\* the rows of a pool in which two videos with the same id both match Music,
\* one video is in two rows and one video is in none
C22_Witness ==
    /\ classifier.runs # <<>>
    /\ LET pool == classifier.given
           rows == classifier.runs[1]
       IN  /\ \E i, j \in 1..Len(pool) :
                  /\ i < j
                  /\ pool[i].videoId = pool[j].videoId
                  /\ pool[i] # pool[j]
                  /\ MatchesTopic(pool[i], "music") /\ MatchesTopic(pool[j], "music")
           /\ \E v \in Range(pool) : v \in Range(rows.music) /\ v \in Range(rows.kids)
           /\ \E v \in Range(pool) : \A topic \in TopicRows : v \notin Range(rows[topic])

-----------------------------------------------------------------------------
(* Callers that change the response they received *)

CloneSearchOutcomes == { SearchOk(<<"a", "b">>, "") }

\* the caller of call c empties the items array of the response it received
\* (res.items.length = 0): every holder of that object sees the change
CallerMutates(c) ==
    /\ calls[c].status = "resolved"
    /\ calls[c].data.items # <<>>
    /\ calls' = [d \in DOMAIN calls |->
                    IF calls[d].obj # calls[c].obj THEN calls[d]
                    ELSE [calls[d] EXCEPT !.data.items = <<>>,
                                          !.changed = Cardinality(DOMAIN calls)]]
    /\ searchCache' = [k \in DOMAIN searchCache |->
                          IF cacheObj[k] # calls[c].obj THEN searchCache[k]
                          ELSE [searchCache[k] EXCEPT !.items = <<>>]]
    /\ UNCHANGED <<clock, ticks, reloads, hasClientKey, cacheObj, sessionStore,
                   inFlightSearch, seenMap, ops, fetchLog, failedOps, srvCache, app,
                   pager, classifier, favorites>>

NextClone ==
    \/ Step(UserInputs, CloneSearchOutcomes, DetailsOutcomes, ChannelsOutcomes, {1})
    \/ \E c \in DOMAIN calls : CallerMutates(c)

SpecClone == Init /\ [][NextClone]_vars

\* the call was answered from the cache
CacheHit(c) == calls[c].promise = 0 /\ calls[c].status = "resolved"

\* C23: whatever the callers do to the response objects they received, the
\* cache keeps the response as it was written (the sessionStorage string
\* holds the same response, but for the cached mark that the memory entry
\* gets when it is filled from the string), no change made by a caller changes the memory
\* cache, and every cache hit returns the written response marked cached.
C23_CacheHitsAreCopies ==
    /\ [](\A k \in DOMAIN searchCache :
             /\ k \in DOMAIN sessionStore
             /\ [searchCache[k] EXCEPT !.cached = TRUE]
                    = [sessionStore[k].data EXCEPT !.cached = TRUE])
    /\ [][ /\ (\E c \in DOMAIN calls : CallerMutates(c)) => searchCache' = searchCache
           /\ \A c \in NewCalls :
                (calls'[c].promise = 0 /\ calls'[c].status = "resolved") =>
                    calls'[c].data = [sessionStore[calls'[c].key].data
                                         EXCEPT !.cached = TRUE] ]_vars

\* a caller emptied the response of the fetch, and a later call with the key
\* was answered from the cache with the items of the fetch
C23_Witness ==
    \E c1, c2 \in DOMAIN calls :
        /\ calls[c1].started
        /\ calls[c1].changed # 0
        /\ calls[c1].data.items = <<>>
        /\ calls[c2].key = calls[c1].key
        /\ c2 > calls[c1].changed
        /\ CacheHit(c2)
        /\ calls[c2].data.cached
        /\ calls[c2].data.items # <<>>

-----------------------------------------------------------------------------
(* Error reports of the orchestrator, under SpecOrch *)

\* the fetchSearch calls of the App that failed and whose failure the App has
\* caught
CaughtFailures ==
    {c \in DOMAIN calls : /\ calls[c].caller = "app"
                          /\ calls[c].status = "rejected"
                          /\ c \notin {app.await, app.lmAwait}}

\* every error the App caught was raised as a notification
EveryErrorNotified == app.toasts = Cardinality(CaughtFailures)

\* the banner shows the message of the latest error
BannerShowsLatest == app.lastError # "" => app.error = app.lastError

\* C24: after any sequence of keyword failures of the initial load and of
\* failed load-more runs, every error has been raised as a notification and
\* the inline banner shows the message of the most recent one.
C24_ErrorsNotifiedBannerLatest == EveryErrorNotified /\ BannerShowsLatest

\* a load more failed after a keyword of the initial load had failed
C24_LoadMoreFailedAfterKeyword ==
    /\ app.toasts >= 2
    /\ app.lastError = "Failed to load more items. Please try again later."
    /\ app.error # app.lastError

-----------------------------------------------------------------------------
(* The favorites slice under sequences of up to MaxDispatches actions *)

MaxDispatches == 3   \* actions dispatched to the store

\* four videos with three ids: two of them are one video with and without the
\* data of the details call
FavVideos ==
    { ToVideoItem(Snippet("a"), Details("a")),
      ToVideoItem(Snippet("a"), NoDetails),
      ToVideoItem(Snippet("b"), Details("b")),
      ToVideoItem(Snippet("g"), Details("g")) }

FavLists == UNION {[1..n -> FavVideos] : n \in 0..2}

NextFavorites ==
    /\ favorites.n < MaxDispatches
    /\ \/ \E v \in FavVideos : ToggleFavorite(v)
       \/ \E list \in FavLists : SetFavorites(list)

SpecFavorites == Init /\ [][NextFavorites]_vars

\* the latest action and the one before it
LastAction == favorites.log[Len(favorites.log)]
ActionBefore == favorites.log[1]

\* C25: toggleFavorite(v) on a map without the id of v gives the map with v
\* added under that id, on a map with the id gives the map without it, and
\* changes no other entry; two toggleFavorite actions in a row for one video
\* leave the ids the map held before them.
C25_ToggleFavorite ==
    /\ (favorites.log # <<>> /\ LastAction.type = "toggleFavorite") =>
          LET v == LastAction.payload[1]
              before == LastAction.before
          IN  /\ IF v.videoId \in DOMAIN before
                 THEN DOMAIN favorites.byId = DOMAIN before \ {v.videoId}
                 ELSE /\ DOMAIN favorites.byId = DOMAIN before \cup {v.videoId}
                      /\ favorites.byId[v.videoId] = v
              /\ \A id \in DOMAIN before \ {v.videoId} : favorites.byId[id] = before[id]
    /\ (/\ Len(favorites.log) = 2
        /\ LastAction.type = "toggleFavorite"
        /\ ActionBefore.type = "toggleFavorite"
        /\ LastAction.payload = ActionBefore.payload) =>
          DOMAIN favorites.byId = DOMAIN ActionBefore.before

\* a video was added to a map that held another one, and removed again
C25_Witness ==
    /\ Len(favorites.log) = 2
    /\ LastAction.type = "toggleFavorite"
    /\ ActionBefore.type = "toggleFavorite"
    /\ LastAction.payload = ActionBefore.payload
    /\ ActionBefore.before # EmptyMap
    /\ LastAction.payload[1].videoId \notin DOMAIN ActionBefore.before
    /\ LastAction.payload[1].videoId \in DOMAIN LastAction.before
    /\ favorites.byId = ActionBefore.before

\* C26: after setFavorites(list) the keys of byId are exactly the videoIds of
\* the list, whatever the map held before.
C26_SetFavoritesReplaces ==
    (favorites.log # <<>> /\ LastAction.type = "setFavorites") =>
        /\ DOMAIN favorites.byId = IdsOf(LastAction.payload)
        /\ \A id \in DOMAIN favorites.byId : favorites.byId[id] \in Range(LastAction.payload)

\* a list was set on a map that held an id the list does not hold
C26_Witness ==
    /\ favorites.log # <<>>
    /\ LastAction.type = "setFavorites"
    /\ LastAction.payload # <<>>
    /\ DOMAIN LastAction.before \ IdsOf(LastAction.payload) # {}
    /\ DOMAIN favorites.byId \ DOMAIN LastAction.before # {}

-----------------------------------------------------------------------------
(* Concurrent requests at the proxy, under Spec *)

\* the handler of the request has made its upstream search call and has not
\* stored its result yet
SrvHandling(o) == ops[o].pc \in {"s_search", "s_details", "s_channels"}

\* C27: the proxy never handles two requests with one cache key at the same
\* time with an upstream search call each: of the requests with one key that
\* arrive before the first has stored its result, one makes the upstream
\* search call.
C27_ProxySharesUpstreamCall ==
    \A o1, o2 \in DOMAIN ops :
        (/\ SrvHandling(o1)
         /\ SrvHandling(o2)
         /\ ops[o1].srvKey = ops[o2].srvKey) => o1 = o2

-----------------------------------------------------------------------------
(* The displayed rows, under SpecOrch *)

DisplayedRows(a) == [name \in RowNames |-> DisplayedRow(a, name)]

\* C28: the displayed rows are at all times the rows computeCategoriesPool
\* gives for the whole current pool, so they are after the initial load
\* published the pool and after every load more that added a batch; a step
\* that leaves the pool as it is leaves the rows as they are.
C28_RowsFollowPool ==
    /\ [](DisplayedRows(app) = computeCategoriesPool(app.allVideos).categories)
    /\ [][app'.allVideos = app.allVideos => DisplayedRows(app') = DisplayedRows(app)]_vars

\* a load more added a batch to a published pool: the row of the most viewed
\* holds the videos of the batch and those the pool held before, the Music
\* row videos the pool held before
C28_Witness ==
    /\ app.batches # <<>>
    /\ ~app.loadingMoreRef
    /\ LET batch == Range(app.batches[Len(app.batches)])
       IN  /\ batch \subseteq IdsOf(DisplayedRow(app, "topViews"))
           /\ IdsOf(DisplayedRow(app, "music")) \ batch # {}
           /\ Len(DisplayedRow(app, "topViews")) = Len(app.allVideos)

-----------------------------------------------------------------------------
(* The upstream calls of one fetch: searches that deliver videos, no video or *)
(* an error, detail and channel calls that succeed or fail                    *)

CallsSearchOutcomes ==
    { SearchOk(<<"a", "w", "g">>, ""), SearchOk(<<"">>, ""), SearchOk(<<>>, ""),
      SearchHttp(500, "") }

NextCalls ==
    Step(FilterArgs, CallsSearchOutcomes, FilterDetailsOutcomes, FilterChannelsOutcomes,
         {1})

SpecCalls == Init /\ [][NextCalls]_vars

CallOrder == <<"search", "details", "channels">>

IsPrefix(s, t) == Len(s) <= Len(t) /\ \A n \in 1..Len(s) : s[n] = t[n]

\* the place of a call in the order search, details, channels
CallRank(call) == CHOOSE n \in 1..3 : CallOrder[n] = call

\* the calls are made in the order search, details, channels, none twice
InCallOrder(s) == \A m, n \in 1..Len(s) : m < n => CallRank(s[m]) < CallRank(s[n])

\* the upstream call whose answer the operation waits for
Awaited(op) ==
    CASE op.pc \in {"search", "s_search"} -> "search"
      [] op.pc \in {"details", "s_details"} -> "details"
      [] op.pc \in {"channels", "s_channels"} -> "channels"
      [] OTHER -> "none"

\* the upstream client has been invoked for the operation: fetchYouTubeDirect
\* on the direct path, the handler past its cache lookup on the proxy path
Invoked(op) == op.mode = "yt" \/ (op.srvKey # NoKey /\ ~op.srvHit)

\* C29: the upstream calls of one invocation are made in the order search,
\* details, channels, none of them twice: the search call when the invocation
\* begins, the details call only when the search answer holds a video id, a
\* further call only in the step in which the answer to the previous one
\* arrives; the call waited for is the last one made, and an invocation that
\* has ended makes no call.
C29_CallsInSequence ==
    /\ [](\A o \in DOMAIN ops :
             /\ InCallOrder(ops[o].sent)
             /\ Invoked(ops[o]) <=> ops[o].sent # <<>>
             /\ ops[o].sent # <<>> => ops[o].sent[1] = "search"
             /\ (\E n \in 1..Len(ops[o].sent) : ops[o].sent[n] = "details") =>
                    ops[o].found # {}
             /\ Awaited(ops[o]) # "none" =>
                    ops[o].sent[Len(ops[o].sent)] = Awaited(ops[o]))
    /\ [][\A o \in DOMAIN ops :
             /\ IsPrefix(ops[o].sent, ops'[o].sent)
             /\ Len(ops'[o].sent) <= Len(ops[o].sent) + 1
             /\ (ops[o].sent # <<>> /\ ops'[o].sent # ops[o].sent) =>
                    /\ Awaited(ops[o]) = ops[o].sent[Len(ops[o].sent)]
                    /\ Awaited(ops'[o]) = ops'[o].sent[Len(ops'[o].sent)]
             /\ Awaited(ops[o]) = "none" /\ ops[o].pc # "p_sent" =>
                    ops'[o].sent = ops[o].sent ]_vars

\* one fetch ended with its search call failed, another one made the three
\* calls and succeeded although its details call delivered nothing
C29_Witness ==
    \E o1, o2 \in DOMAIN ops :
        /\ ops[o1].pc = "rejected"
        /\ ops[o1].sent = <<"search">>
        /\ ops[o2].pc = "resolved"
        /\ ops[o2].sent = CallOrder
        /\ ops[o2].found # {}
        /\ ops[o2].enriched = {}

\* a search answer without a video id was followed by the channels call alone
C29_ChannelsWithoutDetails ==
    \E o \in DOMAIN ops :
        ops[o].sent = <<"search", "channels">> /\ Awaited(ops[o]) = "none"

-----------------------------------------------------------------------------
(* The items fetchSearch lets through: searches that deliver items without a  *)
(* video id and items with blocked titles, with the details delivered in      *)
(* full, in part or not at all                                                *)

ValidSearchOutcomes ==
    { SearchOk(<<"a", "", "w">>, ""), SearchOk(<<"", "g">>, ""), SearchOk(<<"">>, "") }

NextValid ==
    Step(FilterArgs, ValidSearchOutcomes, FilterDetailsOutcomes, FilterChannelsOutcomes,
         {1})

SpecValid == Init /\ [][NextValid]_vars

\* the item has a video id, and no term of the list occurs in its title
ValidItem(v) ==
    /\ v.videoId # ""
    /\ \A k \in CONTENT_BLOCKLIST : ~Includes(ToLowerCase(Chars(v.title)), k)

ValidResponse(data) == \A n \in 1..Len(data.items) : ValidItem(data.items[n])

\* C30: every item of every response held in the memory map or in the session
\* store, and of every response a fetchSearch call resolved with, has a
\* non-empty videoId and a title free of blocklist terms, on both paths and
\* whether the item's details record was delivered or not.
C30_StoredAndReturnedItemsValid ==
    /\ \A k \in DOMAIN searchCache : ValidResponse(searchCache[k])
    /\ \A k \in DOMAIN sessionStore : ValidResponse(sessionStore[k].data)
    /\ \A c \in DOMAIN calls :
           calls[c].status = "resolved" => ValidResponse(calls[c].data)

\* the proxy answered with an item without a video id, and the call resolved
\* with a video whose details record was not delivered
C30_Witness ==
    \E c \in DOMAIN calls :
        LET op == ops[calls[c].origin]
        IN  /\ calls[c].status = "resolved"
            /\ op.mode = "proxy"
            /\ op.srvKey \in DOMAIN srvCache
            /\ ~ValidResponse(srvCache[op.srvKey].data)
            /\ \E v \in Range(calls[c].data.items) : v.videoId \notin op.enriched

\* on the direct path a call resolved with a video whose details call failed,
\* the item without a video id and the one with a blocked title left out
C30_DirectWithoutDetails ==
    \E c \in DOMAIN calls :
        LET op == ops[calls[c].origin]
        IN  /\ calls[c].status = "resolved"
            /\ op.mode = "yt"
            /\ op.found = {"a", "w"}
            /\ op.enriched = {}
            /\ IdsOf(calls[c].data.items) = {"a"}

-----------------------------------------------------------------------------
(* Properties of the seen-sets, under SpecMore *)

\* the direct fetches for the scope that return in the step
ReturningFor(seenKey) ==
    {o \in DOMAIN ops :
        /\ ops[o].mode = "yt"
        /\ SeenKey(ops[o].key.q) = seenKey
        /\ ops[o].pc \in {"search", "channels"}
        /\ ops'[o].pc = "resolved"}

\* C31: every step keeps every scope of the per-query seen-sets with all its
\* ids, and keeps all ids of the global displayed-id set; a scope gains ids
\* only from a fetch of its own query that returns in the step (the ids that
\* fetch found), the global set only the ids of the pool or batch displayed in
\* the step.
C31_SeenSetsOnlyGrow ==
    [][ /\ DOMAIN seenMap \subseteq DOMAIN seenMap'
        /\ \A k \in DOMAIN seenMap : seenMap[k] \subseteq seenMap'[k]
        /\ \A k \in DOMAIN seenMap' :
              \/ seenMap'[k] = SeenOf(k)
              \/ \E o \in ReturningFor(k) :
                    /\ ReturningFor(k) = {o}
                    /\ seenMap'[k] \ SeenOf(k) \subseteq ops[o].found
        /\ app.globalDisplayedIds \subseteq app'.globalDisplayedIds
        /\ app'.globalDisplayedIds \ app.globalDisplayedIds
              \subseteq IdsOf(app'.allVideos)
      ]_vars

\* a scope of the direct path holds the ids of two fetches, the global set
\* the ids of the pool and of a batch, and a load more has failed
C31_Witness ==
    /\ \E k \in DOMAIN seenMap : Cardinality(seenMap[k]) >= 3
    /\ Len(app.batches) >= 1
    /\ app.toasts >= 1
    /\ Cardinality(app.globalDisplayedIds) = Len(app.allVideos)

-----------------------------------------------------------------------------
(* Load more with every request answered: the upstream, the proxy and the    *)
(* network deliver an answer or an error for every request, and a settled    *)
(* promise's continuation runs                                               *)

\* a request is answered, or fails
Answered ==
    \/ \E o \in DOMAIN ops : \E out \in MoreSearchOutcomes(o) : SearchResp(o, out)
    \/ \E o \in DOMAIN ops, out \in DetailsOutcomes : DetailsResp(o, out)
    \/ \E o \in DOMAIN ops, kind \in ChannelsOutcomes : ChannelsResp(o, kind)
    \/ \E o \in DOMAIN ops : SrvRecv(o)
    \/ \E o \in DOMAIN ops : \E out \in MoreSearchOutcomes(o) : SrvSearchResp(o, out)
    \/ \E o \in DOMAIN ops, out \in DetailsOutcomes : SrvDetailsResp(o, out)
    \/ \E o \in DOMAIN ops, kind \in ChannelsOutcomes : SrvChannelsResp(o, kind)
    \/ \E o \in DOMAIN ops : ProxyResp(o)

\* a request is outstanding: Answered is enabled
AnswerDue == \E o \in DOMAIN ops : Pending(o)

\* the fetchSearch call the running load more awaits has settled:
\* LoadMoreResume is enabled
ResumeDue == app.loadingMoreRef /\ Settled(app.lmAwait)

\* weak fairness of Answered and of LoadMoreResume, with the enabling
\* conditions written out: an outstanding request is answered in the end, and
\* the continuation of a settled promise runs (the microtask queue is drained)
SpecMoreFair ==
    /\ SpecMore
    /\ ([]<>(~AnswerDue) \/ []<><<Answered>>_vars)
    /\ ([]<>(~ResumeDue) \/ []<><<LoadMoreResume>>_vars)

\* the running load more resumes in the step after its fetchSearch settled
LoadMoreResumes == ResumeDue /\ app' # app /\ ~LoadMoreCalled

\* the settled fetchSearch of the running load more ends it: it was rejected,
\* it brought a new videoId, or it was the 12th window without one
LastFetchOfLoad ==
    \/ calls[app.lmAwait].status = "rejected"
    \/ NotIn(calls[app.lmAwait].data.items, app.globalDisplayedIds) # <<>>
    \/ app.lmAttempts = MONTH_CAP - 1

\* C32: a load more that has begun ends (every request being answered), and
\* at its end loadingMoreRef and loadingMore are false again, whether it added
\* a batch, found nothing in 12 windows or failed; while it goes on to the
\* next window the flags stay set; a loadMoreForAny call made while the flags
\* are false begins a load.
C32_GuardReleased ==
    /\ app.loadingMoreRef ~> (~app.loadingMoreRef /\ ~app.loadingMore)
    /\ [][ /\ (LoadMoreResumes /\ LastFetchOfLoad) =>
                (~app'.loadingMoreRef /\ ~app'.loadingMore)
           /\ (LoadMoreResumes /\ ~LastFetchOfLoad) =>
                (app'.loadingMoreRef /\ app'.loadingMore
                    /\ app'.lmAwait \notin DOMAIN calls)
           /\ (LoadMoreCalled /\ ~app.loadingMoreRef) =>
                (app'.loadingMoreRef /\ app'.loadingMore
                    /\ app'.lmAwait \notin DOMAIN calls)
         ]_vars

\* a fourth load was begun after three that ended: with a batch, with a
\* failure and with 12 empty windows
C32_Witness ==
    /\ Len(app.picks) = 4
    /\ app.loadingMoreRef
    /\ Len(app.batches) >= 1
    /\ app.toasts = 1
    /\ \E k \in 1..Len(AI_KEYWORDS) : app.monthsBackCounter[k] = 1 + MONTH_CAP

-----------------------------------------------------------------------------
(* Specification of the keyword rounds: the initial load, then loads that    *)
(* come round to a keyword a second time, against an upstream that answers   *)
(* by keyword and window and fails a bounded number of times                 *)

MaxRoundLoads == 5   \* loads begun by loadMoreForAny

NextRounds ==
    \/ AppMount
    \/ AppInitResume
    \/ Len(app.picks) < MaxRoundLoads /\ ~app.loadingMoreRef /\ LoadMoreForAny
    \/ LoadMoreResume
    \/ \E o \in DOMAIN ops : \E out \in MoreSearchOutcomes(o) : SearchResp(o, out)
    \/ \E o \in DOMAIN ops, out \in DetailsOutcomes : DetailsResp(o, out)
    \/ \E o \in DOMAIN ops, kind \in ChannelsOutcomes : ChannelsResp(o, kind)
    \/ \E o \in DOMAIN ops : SrvRecv(o)
    \/ \E o \in DOMAIN ops : \E out \in MoreSearchOutcomes(o) : SrvSearchResp(o, out)
    \/ \E o \in DOMAIN ops, out \in DetailsOutcomes : SrvDetailsResp(o, out)
    \/ \E o \in DOMAIN ops, kind \in ChannelsOutcomes : SrvChannelsResp(o, kind)
    \/ \E o \in DOMAIN ops : ProxyResp(o)
    \/ \E o \in DOMAIN ops : Failures < MaxFailures /\ ProxyUnreachable(o)

SpecRounds == Init /\ [][NextRounds]_vars

\* the window of a fetchSearch call, as the App passed it
WindowOf(c) ==
    [after |-> calls[c].args.opts.publishedAfter.t,
     before |-> calls[c].args.opts.publishedBefore.t]

\* C33: no step lowers the months-back counter of a keyword; the first window
\* the loads request for a keyword ends where the window of the initial load
\* starts (the counter being 1 or unset then), every window has its start
\* before its end, and each further window requested for the keyword ends
\* where the one requested before it starts when that fetch completed, and
\* never later than that one ends; so a window whose fetch completed lies
\* wholly after every window requested for the keyword later and is not
\* requested again.
C33_WindowsAdvance ==
    /\ [][\A k \in 1..Len(AI_KEYWORDS) :
             app'.monthsBackCounter[k] >= app.monthsBackCounter[k]]_vars
    /\ [](\A k \in 1..Len(AI_KEYWORDS) :
             LET cs == app.asked[k]
             IN  /\ cs # <<>> => WindowOf(cs[1]).before = app.oldestPublishedDate
                 /\ \A n \in 1..Len(cs) :
                        /\ calls[cs[n]].args.q = AI_KEYWORDS[k]
                        /\ WindowOf(cs[n]).after < WindowOf(cs[n]).before
                        /\ n > 1 => WindowOf(cs[n]).before <= WindowOf(cs[n - 1]).before
                        /\ (n > 1 /\ calls[cs[n - 1]].status = "resolved") =>
                               WindowOf(cs[n]).before = WindowOf(cs[n - 1]).after)

\* the first keyword was loaded twice: the first load found a video in the
\* second window, the second one went on from the third
C33_Witness ==
    /\ app.picks = <<1, 2, 3, 4, 1>>
    /\ app.batches[1] = <<"e">>
    /\ app.monthsBackCounter[1] > 3
    /\ Len(app.asked[1]) > 3
    /\ calls[app.asked[1][2]].status = "resolved"
    /\ IdsOf(calls[app.asked[1][2]].data.items) = {"e"}
    /\ WindowOf(app.asked[1][3]).before = WindowOf(app.asked[1][2]).after

-----------------------------------------------------------------------------
(* Properties of a load that fails, under SpecRounds *)

\* the running load resumes in the step with its fetchSearch call rejected
LoadMoreFails == LoadMoreResumes /\ calls[app.lmAwait].status = "rejected"

\* C34: when the fetchSearch call of a running load is rejected after k empty
\* windows, the load ends in that step with one error notified and nothing
\* added; the keyword's counter stays at its value at the start of the load
\* plus k (for k = 0 it stays as it was), the value of the window that
\* failed; the cursor stands at the keyword after the one of the failed load;
\* and the next call made for that keyword, by a later load, asks for the
\* window that failed.
C34_FailedLoadKeepsProgress ==
    /\ [][LoadMoreFails =>
             /\ ~app'.loadingMoreRef /\ ~app'.loadingMore
             /\ app'.toasts = app.toasts + 1
             /\ app'.error # ""
             /\ app'.allVideos = app.allVideos
             /\ app'.monthsBackCounter = app.monthsBackCounter
             /\ app.lmAttempts < MONTH_CAP
             /\ app.lmCounter = CounterOf(app.lmFrom) + app.lmAttempts
             /\ CounterOf(app.monthsBackCounter[app.lmKw]) = app.lmCounter
             /\ calls[app.lmAwait].args.opts.publishedAfter =
                    computeNextMonthWindow(app.oldestPublishedDate, clock,
                        CounterOf(app'.monthsBackCounter[app.lmKw])).after
             /\ app'.keywordIndex = app.lmKw % Len(AI_KEYWORDS)
             /\ app'.keywordIndex = app.keywordIndex
             /\ DOMAIN calls' = DOMAIN calls]_vars
    /\ [](\A k \in 1..Len(AI_KEYWORDS) : \A n \in 2..Len(app.asked[k]) :
             calls[app.asked[k][n - 1]].status = "rejected" =>
                 /\ WindowOf(app.asked[k][n]) = WindowOf(app.asked[k][n - 1])
                 /\ app.asked[k][n] > app.asked[k][n - 1] + 1)

\* the first load found the first window of the first keyword empty and
\* failed at the second; the loads of the other three keywords followed; the
\* fifth load, for the first keyword again, began with the second window
C34_Witness ==
    /\ app.picks = <<1, 2, 3, 4, 1>>
    /\ app.toasts = 1
    /\ Len(app.asked[1]) = 3
    /\ calls[app.asked[1][1]].status = "resolved"
    /\ calls[app.asked[1][2]].status = "rejected"
    /\ WindowOf(app.asked[1][3]) = WindowOf(app.asked[1][2])
    /\ app.monthsBackCounter[1] = 2

-----------------------------------------------------------------------------
(* What a load more leaves alone, under SpecMore *)

\* the pool, the rows and the global displayed-id set
Displayed(a) ==
    [allVideos |-> a.allVideos, categoryVideos |-> a.categoryVideos,
     globalDisplayedIds |-> a.globalDisplayedIds]

\* the items of the settled fetchSearch call of the running load that are new
\* to the global displayed-id set
NewItems == NotIn(calls[app.lmAwait].data.items, app.globalDisplayedIds)

\* C35: once the initial load has published the pool, a loadMoreForAny call
\* rejected by the guard, the start of a load, every window that brings
\* nothing new and a failed fetch leave the pool, the rows and the global
\* displayed-id set as they are; a load that brings new items leaves the pool
\* as the old pool followed by those items, none of which was displayed, and
\* adds their ids to the set.
C35_LoadMoreFrame ==
    [][app.pc = "ready" =>
          /\ LoadMoreCalled => Displayed(app') = Displayed(app)
          /\ (LoadMoreResumes /\ calls[app.lmAwait].status = "rejected") =>
                Displayed(app') = Displayed(app)
          /\ (LoadMoreResumes /\ calls[app.lmAwait].status = "resolved"
                /\ NewItems = <<>>) =>
                Displayed(app') = Displayed(app)
          /\ (LoadMoreResumes /\ calls[app.lmAwait].status = "resolved"
                /\ NewItems # <<>>) =>
                /\ Len(app'.allVideos) > Len(app.allVideos)
                /\ SubSeq(app'.allVideos, 1, Len(app.allVideos)) = app.allVideos
                /\ \A n \in (Len(app.allVideos) + 1)..Len(app'.allVideos) :
                      /\ app'.allVideos[n].videoId \notin app.globalDisplayedIds
                      /\ app'.allVideos[n] \in Range(calls[app.lmAwait].data.items)
                /\ app'.globalDisplayedIds =
                      app.globalDisplayedIds \cup IdsOf(app'.allVideos)
          /\ (~LoadMoreCalled /\ ~LoadMoreResumes) => Displayed(app') = Displayed(app)
    ]_vars

\* a call was rejected by the guard, one load added a batch behind the pool,
\* one failed and one found nothing in 12 windows
C35_Witness ==
    /\ app.loadMores = 4
    /\ Len(app.picks) = 3
    /\ ~app.loadingMoreRef
    /\ app.batches = << <<"e">> >>
    /\ Len(app.allVideos) > 1
    /\ app.allVideos[Len(app.allVideos)].videoId = "e"
    /\ app.toasts = 1
    /\ \E k \in 1..Len(AI_KEYWORDS) : app.monthsBackCounter[k] = 1 + MONTH_CAP

-----------------------------------------------------------------------------
(* Specification of the cache key: the same query in two spellings, with and
   without a date window, at different times *)

KeyArgs ==
    { Args(Str_ai, "", ValidOpts),
      Args(Str_AI, "", ValidOpts),
      Args(Str_ai, "", NoOpts) }

KeySearchOutcomes == { SearchOk(<<"a", "b">>, "") }

NextKeys == Step(KeyArgs, KeySearchOutcomes, DetailsOutcomes, ChannelsOutcomes, {1})

SpecKeys == Init /\ [][NextKeys]_vars

\* the call got as far as building its cache key
Keyed(c) == calls[c].key # NoKey

\* the sanitized query texts of the two calls differ in letter case only
CaseOnly(c1, c2) ==
    /\ SanitizeQuery(calls[c1].args.q) # SanitizeQuery(calls[c2].args.q)
    /\ ToLowerCase(SanitizeQuery(calls[c1].args.q)) =
          ToLowerCase(SanitizeQuery(calls[c2].args.q))

\* page token, normalized options and mode of the two calls are equal
SameRest(c1, c2) ==
    /\ calls[c1].key.pageToken = calls[c2].key.pageToken
    /\ calls[c1].key.opts = calls[c2].key.opts
    /\ calls[c1].key.mode = calls[c2].key.mode

\* C36 as stated: two calls whose sanitized query texts differ only in letter
\* case, with equal page token, options and mode, have the same cache key
C36_SameKeyAnyCase ==
    \A c1, c2 \in DOMAIN calls :
        (Keyed(c1) /\ Keyed(c2) /\ CaseOnly(c1, c2) /\ SameRest(c1, c2)) =>
            calls[c1].key = calls[c2].key

\* C36: two calls whose sanitized query texts differ only in letter case use
\* one dedup scope on the direct path but different cache keys: a call is
\* served from the cache or attached to a fetch in flight only when an earlier
\* call had the same sanitized text, letter case included; otherwise it starts
\* a fetch of its own, and on the direct path the seen-sets are kept under the
\* lower-cased text, so that the two fetches return no id in common
C36_CaseSplitsCacheNotScope ==
    /\ \A c \in DOMAIN calls :
          (Keyed(c) /\ ~calls[c].started) =>
              \E c1 \in DOMAIN calls :
                  /\ c1 < c
                  /\ Keyed(c1)
                  /\ SanitizeQuery(calls[c1].args.q) = SanitizeQuery(calls[c].args.q)
                  /\ SameRest(c1, c)
    /\ \A c1, c2 \in DOMAIN calls :
          (Keyed(c1) /\ Keyed(c2) /\ CaseOnly(c1, c2)) =>
              /\ calls[c1].key # calls[c2].key
              /\ calls[c1].origin # 0 => calls[c1].origin # calls[c2].origin
              /\ SeenKey(calls[c1].key.q) = SeenKey(calls[c2].key.q)
    /\ \A k \in DOMAIN seenMap : k = ToLowerCase(k)
    /\ \A c1, c2 \in DOMAIN calls :
          (/\ Keyed(c1) /\ Keyed(c2) /\ CaseOnly(c1, c2)
           /\ calls[c1].key.mode = "yt" /\ calls[c2].key.mode = "yt"
           /\ calls[c1].page = calls[c2].page
           /\ calls[c1].started /\ calls[c2].started
           /\ calls[c1].status = "resolved" /\ calls[c2].status = "resolved") =>
              IdsOf(calls[c1].data.items) \cap IdsOf(calls[c2].data.items) = {}

\* "ai" was fetched on the direct path and returned items; "AI", asked with
\* the same options while that answer was cached, was fetched again and
\* returned nothing new
C36_Witness ==
    /\ DOMAIN calls = {1, 2}
    /\ CaseOnly(1, 2) /\ SameRest(1, 2)
    /\ calls[1].key.mode = "yt"
    /\ calls[1].page = calls[2].page
    /\ calls[1].status = "resolved" /\ calls[2].status = "resolved"
    /\ calls[1].key \in DOMAIN searchCache
    /\ calls[2].started
    /\ calls[1].data.items # <<>>
    /\ calls[2].data.items = <<>>

-----------------------------------------------------------------------------
(* Properties of the default window in the cache key, under SpecKeys *)

\* the caller gave neither bound of the date window
NoWindow(args) ==
    args.opts.publishedAfter.fmt = "none" /\ args.opts.publishedBefore.fmt = "none"

\* C37: the key of a call without a date window holds the default window of
\* the clock value at which the call is made, and two otherwise identical
\* calls without a window made at different clock values have different keys:
\* neither is answered by the fetch or from the cache entry of the other, and
\* a call starts a fetch of its own when no call with its arguments was made
\* at its clock value before
C37_DefaultWindowInKey ==
    /\ [][\A c \in NewCalls :
              NoWindow(calls'[c].args) =>
                  /\ Keyed(c)'
                  /\ calls'[c].key.opts.publishedBefore = IsoDate(clock)
                  /\ calls'[c].key.opts.publishedAfter = IsoDate(SetMonthRel(clock, -1))
                  /\ (\A c1 \in DOMAIN calls :
                         calls[c1].args = calls'[c].args =>
                             calls[c1].key.opts.publishedBefore # IsoDate(clock)) =>
                        /\ calls'[c].started
                        /\ calls'[c].status = "pending"
                        /\ calls'[c].promise \notin DOMAIN ops
         ]_vars
    /\ [](\A c1, c2 \in DOMAIN calls :
             (/\ NoWindow(calls[c1].args) /\ calls[c1].args = calls[c2].args
              /\ calls[c1].key.opts.publishedBefore # calls[c2].key.opts.publishedBefore) =>
                 /\ calls[c1].key # calls[c2].key
                 /\ calls[c1].origin # 0 => calls[c1].origin # calls[c2].origin)

\* a call without a window was answered and cached; the same call made a
\* second later on the same page started a fetch of its own
C37_Witness ==
    /\ DOMAIN calls = {1, 2}
    /\ NoWindow(calls[1].args)
    /\ calls[1].args = calls[2].args
    /\ calls[1].page = calls[2].page
    /\ calls[1].key \in DOMAIN searchCache
    /\ calls[2].key.opts.publishedBefore.t = calls[1].key.opts.publishedBefore.t + 1
    /\ calls[2].started

-----------------------------------------------------------------------------
(* Properties of the initial load under a cleaned-up mount effect, under
   SpecOrch *)

\* the fetchSearch calls the App has made
AppCalls == {c \in DOMAIN calls : calls[c].caller = "app"}

\* C38: the initial load is started once (before any load more the App has
\* made one call per keyword attempted), and once its 4 keyword attempts have
\* settled and the IIFE has ended, the pool and the rows are published and the
\* loading indicator is false, also when the effect's cleanup has run
C38_InitialLoadCompletes ==
    /\ app.loadMores = 0 => Cardinality(AppCalls) = app.i
    /\ app.pc = "ready" =>
          /\ ~app.loading
          /\ app.categoryVideos # EmptyMap
          /\ app.globalDisplayedIds = IdsOf(app.allVideos)
                \cup UNION {Range(app.batches[n]) : n \in 1..Len(app.batches)}

-----------------------------------------------------------------------------
(* Properties of the load-more trigger, under SpecOrch *)

\* C39: after an initial load that published a non-empty pool, whenever no
\* load more is running, a displayed row carries an armed load-more trigger
C39_LoadMoreReachable ==
    (app.pc = "ready" /\ app.allVideos # <<>> /\ ~app.loadingMoreRef) => TriggerArmed

-----------------------------------------------------------------------------
(* Specification of the favourites of the store and of the server: save
   buttons of the cards, Unsave buttons of the panel, the server's handlers *)

MaxClicks == 3   \* clicks on save and Unsave buttons

NextSync ==
    \/ \E v \in FavVideos : favorites.n < MaxClicks /\ CardClick(v)
    \/ \E id \in VideoIds : favorites.n < MaxClicks /\ PanelUnsave(id)
    \/ \E n \in 1..MaxClicks : SrvFavorite(n)
    \/ \E n \in 1..MaxClicks : FavUnreachable(n)
    \/ \E n \in 1..MaxClicks : CardResume(n)

SpecSync == Init /\ [][NextSync]_vars

\* every request sent so far was answered with success
AllSucceeded ==
    \A n \in 1..Len(favorites.reqs) : favorites.reqs[n].status = "ok"

\* C40: once all requests the clicks caused have succeeded, the videoIds in
\* the store are the videoIds of the rows the server holds
C40_StoreMatchesServer ==
    AllSucceeded => DOMAIN favorites.byId = DOMAIN favorites.rows

====
